---- MODULE Spec2Model ----
(***************************************************************************)
(* Model of the DWG -> Three.js drawing core: colour resolution            *)
(* (types.ts getEntityColor / getLayerColor, BaseDrawer.getEntityColor),   *)
(* the INSERT transform (types.ts createInsertTransformMatrix) and the     *)
(* render traversal (ViewportDraw.render, createEntityFromDrawers,         *)
(* InsertDrawer.draw / drawBlockEntities).                                 *)
(*                                                                         *)
(* Conventions.  An optional number (a field that may be undefined) is a   *)
(* set: {} is undefined, {n} is the number n.  A transform is the 2-D      *)
(* affine part of a THREE.Matrix4 with integer entries.                    *)
(***************************************************************************)
EXTENDS Integers, Sequences, FiniteSets, TLC

(***************************************************************************)
(* Optional numbers                                                        *)
(***************************************************************************)
None == {}

Some(n) == {n}

\* typeof x === 'number'
IsNumber(x) == x # {}

Val(x) == CHOOSE n \in x : TRUE

Abs(n) == IF n < 0 THEN 0 - n ELSE n

(***************************************************************************)
(* Colours: src/src/three/types.ts                                         *)
(***************************************************************************)
White == 16777215

MaxRgb == 16777215

\* the aciColors table of getColorFromIndex, entries 1..255
aciColors == <<
    16711680, 16776960, 65280, 65535, 255, 16711935, 16777215, 8421504,
    12632256, 16711680, 16744319, 10813440, 10834514, 8323072, 8339263, 4980736,
    4990502, 3342336, 3348761, 16727808, 16752511, 10823936, 10839890, 8331008,
    8343359, 4985600, 4992806, 3345664, 3350297, 16744192, 16760703, 10834432,
    10845010, 8339200, 8347455, 4990464, 4995366, 3348736, 3352089, 16760576,
    16768895, 10844928, 10850386, 8347392, 8351551, 4995328, 4997926, 3352064,
    3353881, 16776960, 16777087, 10855680, 10855762, 8355584, 8355647, 5000192,
    5000230, 3355392, 3355417, 12582656, 14679935, 8103168, 9479506, 6258432,
    7307071, 3755008, 4410406, 2503424, 2962201, 8388352, 12582783, 5416192,
    8103250, 4161280, 6258495, 2509824, 3755046, 1651456, 2503449, 4194048,
    10485631, 2729216, 6792530, 2064128, 5209919, 1264640, 3099686, 865024,
    2044697, 65280, 8388479, 42240, 5416274, 32512, 4161343, 19456,
    2509862, 13056, 1651481, 65343, 8388511, 42281, 5416295, 32543,
    4161359, 19475, 2509871, 13069, 1651487, 65407, 8388543, 42322,
    5416315, 32575, 4161375, 19494, 2509881, 13081, 1651494, 65471,
    8388575, 42363, 5416336, 32607, 4161391, 19513, 2509891, 13094,
    1651501, 65535, 8388607, 42405, 5416357, 32639, 4161407, 19532,
    2509900, 13107, 1651507, 49151, 8380415, 31653, 5410981, 24447,
    4157311, 14668, 2507596, 9779, 1649971, 32767, 8372223, 21157,
    5405605, 16255, 4153215, 9804, 2505036, 6451, 1648179, 16383,
    8364031, 10661, 5400485, 8063, 4149119, 4940, 2502476, 3379,
    1646387, 255, 8355839, 165, 5395109, 127, 4145023, 76,
    2500172, 51, 1644851, 4129023, 10452991, 2687141, 6771365, 2031743,
    5193599, 1245260, 3089996, 852019, 2038067, 8323327, 12550143, 5374117,
    8082085, 4128895, 6242175, 2490444, 3745356, 1638451, 2496819, 12517631,
    14647295, 8061093, 9458341, 6226047, 7290751, 3735628, 4400716, 2490419,
    2955571, 16711935, 16744447, 10813605, 10834597, 8323199, 8339327, 4980812,
    4990540, 3342387, 3348787, 16711871, 16744415, 10813563, 10834576, 8323167,
    8339311, 4980793, 4990531, 3342374, 3348781, 16711807, 16744383, 10813522,
    10834555, 8323135, 8339295, 4980774, 4990521, 3342361, 3348774, 16711743,
    16744351, 10813481, 10834535, 8323103, 8339279, 4980755, 4990511, 3342349,
    3348767, 3355443, 5263440, 6908265, 8553090, 12500670, 16777215
>>

getColorFromIndex(colorIndex) ==
  IF colorIndex = 7 THEN White
  ELSE IF colorIndex \in 1..255 /\ aciColors[colorIndex] # 0
       THEN aciColors[colorIndex]
       ELSE White

isValidRgbColor(color) == color >= 0 /\ color <= MaxRgb

\* bgrToRgb: ((bgr & 0xff) << 16) | (((bgr >> 8) & 0xff) << 8) | ((bgr >> 16) & 0xff)
bgrToRgb(bgr) ==
  LET b == (bgr \div 65536) % 256
      g == (bgr \div 256) % 256
      r == bgr % 256
  IN r * 65536 + g * 256 + b

\* Map.get on the layer table: undefined for a name that is not a key
HasLayer(layers, layerName) == layerName \in DOMAIN layers

\* variant of getLayerColor that looks at the colour index before the true colour
getLayerColor_IndexFirst(layerName, context) ==
  IF ~context.hasLayers THEN White
  ELSE IF ~HasLayer(context.layers, layerName) THEN White
  ELSE LET layer == context.layers[layerName] IN
    IF IsNumber(layer.colorIndex)
       /\ Val(layer.colorIndex) > 0 /\ Val(layer.colorIndex) < 256
      THEN getColorFromIndex(Val(layer.colorIndex))
    ELSE IF IsNumber(layer.trueColor) /\ Val(layer.trueColor) # 0
      THEN Val(layer.trueColor)
    ELSE IF IsNumber(layer.color) /\ Val(layer.color) # 0
      THEN IF Val(layer.color) > 255
             THEN Val(layer.color)
             ELSE getColorFromIndex(Val(layer.color))
    ELSE White

getLayerColor(layerName, context) ==
  IF ~context.hasLayers THEN White
  ELSE IF ~HasLayer(context.layers, layerName) THEN White
  ELSE LET layer == context.layers[layerName] IN
    IF IsNumber(layer.trueColor) /\ Val(layer.trueColor) # 0
      THEN Val(layer.trueColor)
    ELSE IF IsNumber(layer.colorIndex)
            /\ Val(layer.colorIndex) > 0 /\ Val(layer.colorIndex) < 256
      THEN getColorFromIndex(Val(layer.colorIndex))
    ELSE IF IsNumber(layer.color) /\ Val(layer.color) # 0
      THEN IF Val(layer.color) > 255
             THEN Val(layer.color)
             ELSE getColorFromIndex(Val(layer.color))
    ELSE White

\* getEntityColor, steps 3-5: the raw colour field, the layer, the default
EntityColorFallback(entity, context, defaultColor) ==
  IF IsNumber(entity.color) /\ Val(entity.color) # 0
    THEN IF Val(entity.color) > 255
           THEN Val(entity.color)
           ELSE getColorFromIndex(Val(entity.color))
  ELSE IF context.hasLayers
    THEN getLayerColor(entity.layer, context)
  ELSE defaultColor

\* variant of step 2 whose ACI branch has no upper bound on the index
EntityColorByIndex_NoUpperBound(entity, context, defaultColor) ==
  LET ci == Abs(Val(entity.colorIndex)) IN
    IF ci = 256
      THEN IF context.hasLayers
             THEN getLayerColor(entity.layer, context)
             ELSE defaultColor
    ELSE IF ci = 0
      THEN IF IsNumber(context.inheritedColor)
             THEN Val(context.inheritedColor)
           ELSE IF context.hasLayers
             THEN getLayerColor(entity.layer, context)
           ELSE defaultColor
    ELSE getColorFromIndex(ci)

\* getEntityColor, step 2: the colour index once it is known to be a number
EntityColorByIndex(entity, context, defaultColor) ==
  LET ci == Abs(Val(entity.colorIndex)) IN
    IF ci = 256
      THEN IF context.hasLayers
             THEN getLayerColor(entity.layer, context)
             ELSE defaultColor
    ELSE IF ci = 0
      THEN IF IsNumber(context.inheritedColor)
             THEN Val(context.inheritedColor)
           ELSE IF context.hasLayers
             THEN getLayerColor(entity.layer, context)
           ELSE defaultColor
    ELSE IF ci > 0 /\ ci < 256
      THEN getColorFromIndex(ci)
    ELSE EntityColorFallback(entity, context, defaultColor)

getEntityColor(entity, context, defaultColor) ==
  IF IsNumber(entity.trueColor) /\ Val(entity.trueColor) # 0
    THEN Val(entity.trueColor)
  ELSE IF IsNumber(entity.colorIndex)
    THEN EntityColorByIndex(entity, context, defaultColor)
  ELSE EntityColorFallback(entity, context, defaultColor)

\* BaseDrawer.getEntityColor: the process-wide monochrome switch comes first
BaseGetEntityColor(entity, context, defaultColor, monoEnabled, monoColor) ==
  IF monoEnabled THEN monoColor
  ELSE getEntityColor(entity, context, defaultColor)

(***************************************************************************)
(* Transforms: the in-plane affine part of a THREE.Matrix4                 *)
(*   x' = a*x + b*y + tx      y' = c*x + d*y + ty                          *)
(* Rotations are whole quarter turns, extrusions are (0,0,1) or (0,0,-1),  *)
(* so that every entry stays an integer.                                   *)
(***************************************************************************)
Identity == [a |-> 1, b |-> 0, c |-> 0, d |-> 1, tx |-> 0, ty |-> 0]

\* Matrix4.multiplyMatrices(m, n) = m x n: n is applied to a point first
multiplyMatrices(m, n) ==
  [a  |-> m.a * n.a + m.b * n.c,
   b  |-> m.a * n.b + m.b * n.d,
   c  |-> m.c * n.a + m.d * n.c,
   d  |-> m.c * n.b + m.d * n.d,
   tx |-> m.a * n.tx + m.b * n.ty + m.tx,
   ty |-> m.c * n.tx + m.d * n.ty + m.ty]

makeTranslation(x, y) == [a |-> 1, b |-> 0, c |-> 0, d |-> 1, tx |-> x, ty |-> y]

makeScale(x, y) == [a |-> x, b |-> 0, c |-> 0, d |-> y, tx |-> 0, ty |-> 0]

\* rotation about Z by q quarter turns (q * PI/2)
makeRotationZ(q) ==
  IF q % 4 = 0 THEN Identity
  ELSE IF q % 4 = 1 THEN [a |-> 0, b |-> 0 - 1, c |-> 1, d |-> 0, tx |-> 0, ty |-> 0]
  ELSE IF q % 4 = 2 THEN [a |-> 0 - 1, b |-> 0, c |-> 0, d |-> 0 - 1, tx |-> 0, ty |-> 0]
  ELSE [a |-> 0, b |-> 1, c |-> 0 - 1, d |-> 0, tx |-> 0, ty |-> 0]

\* arbitrary-axis frame of an extrusion (0,0,z): ex = Y x ez, ey = ez x ex
getOcsToWcsMatrix(extrusionDirection) ==
  IF extrusionDirection.z < 0
    THEN [a |-> 0 - 1, b |-> 0, c |-> 0, d |-> 1, tx |-> 0, ty |-> 0]
    ELSE Identity

\* a || 1
OrOne(v) == IF v = 0 THEN 1 ELSE v

createInsertTransformMatrix(insertionPoint, basePoint, scale, rotation, extrusionDirection, scaleFactor, applyBasePointOffset) ==
  LET basePointOffsetMatrix ==
        IF applyBasePointOffset /\ basePoint # {}
          THEN LET bp == CHOOSE q \in basePoint : TRUE IN
               makeTranslation((0 - bp.x) * scaleFactor, (0 - bp.y) * scaleFactor)
          ELSE Identity
      scaleMatrix == makeScale(scale.x, scale.y)
      rotationMatrix == makeRotationZ(rotation)
      ocsMatrix ==
        IF extrusionDirection # {}
           /\ LET ed == CHOOSE q \in extrusionDirection : TRUE IN
              (ed.x # 0 \/ ed.y # 0 \/ ed.z # 1)
          THEN getOcsToWcsMatrix(CHOOSE q \in extrusionDirection : TRUE)
          ELSE Identity
      translationMatrix ==
        makeTranslation(insertionPoint.x * scaleFactor, insertionPoint.y * scaleFactor)
  IN multiplyMatrices(
       multiplyMatrices(
         multiplyMatrices(
           multiplyMatrices(ocsMatrix, translationMatrix),
           rotationMatrix),
         scaleMatrix),
       basePointOffsetMatrix)

(***************************************************************************)
(* Documents: entities, blocks, layers                                     *)
(***************************************************************************)
ScaleFactor == 2

MaxTop == 2

MaxDepth == 4

Ent(handle, type, name, colorIndex) ==
  [handle |-> handle, type |-> type, name |-> name, layer |-> "0",
   isVisible |-> TRUE, trueColor |-> None, colorIndex |-> colorIndex,
   color |-> None, malformed |-> FALSE,
   insertionPoint |-> [x |-> 0, y |-> 0], xScale |-> 1, yScale |-> 1,
   rotation |-> 0, extrusionDirection |-> {},
   rowCount |-> 0, columnCount |-> 0, rowSpacing |-> 0, columnSpacing |-> 0]

At(e, x, y) == [e EXCEPT !.insertionPoint = [x |-> x, y |-> y]]

\* String.toLowerCase on the block names of the documents
Lower(name) ==
  IF name = "A" THEN "a"
  ELSE IF name = "B" THEN "b"
  ELSE IF name = "C" THEN "c"
  ELSE IF name = "E" THEN "e"
  ELSE IF name = "X" THEN "x"
  ELSE name

NoBlocks == [n \in {} |-> <<>>]

BlocksNested ==
  [n \in {"A", "B", "C", "E"} |->
     IF n = "A" THEN
       << Ent("a1", "LINE", "", Some(0)),
          At(Ent("a2", "INSERT", "B", Some(0)), 0, 1),
          At([Ent("a3", "INSERT", "C", Some(5)) EXCEPT !.xScale = 2], 1, 0),
          Ent("a4", "LINE", "", Some(0)),
          [Ent("a5", "LINE", "", Some(1)) EXCEPT !.layer = "FROZEN"] >>
     ELSE IF n = "B" THEN
       << Ent("b1", "LINE", "", Some(0)),
          [Ent("b2", "POLYLINE3D", "", Some(0)) EXCEPT !.malformed = TRUE],
          At(Ent("b3", "INSERT", "C", Some(0)), 1, 1),
          Ent("b4", "LINE", "", Some(256)) >>
     ELSE IF n = "C" THEN
       << Ent("c1", "LINE", "", Some(0)),
          Ent("c2", "XRECORD", "", Some(0)),
          At(Ent("c3", "INSERT", "X", Some(0)), 0, 1) >>
     ELSE <<>>]

BlocksCyclic ==
  [n \in {"A", "B"} |->
     IF n = "A" THEN
       << At(Ent("a1", "INSERT", "B", Some(0)), 1, 0) >>
     ELSE
       << Ent("b1", "LINE", "", Some(0)),
          At(Ent("b2", "INSERT", "A", Some(0)), 0, 1) >>]

BlockSets == {BlocksNested, BlocksCyclic}

BasePoints == [n \in {"B"} |-> [x |-> 1, y |-> 0]]

LayerEntries ==
  [n \in {"0", "FROZEN", "OFF"} |->
     IF n = "0" THEN
       [trueColor |-> None, colorIndex |-> Some(3), color |-> None,
        frozen |-> FALSE, off |-> FALSE]
     ELSE IF n = "FROZEN" THEN
       [trueColor |-> None, colorIndex |-> Some(1), color |-> None,
        frozen |-> TRUE, off |-> FALSE]
     ELSE
       [trueColor |-> Some(4660), colorIndex |-> Some(2), color |-> None,
        frozen |-> FALSE, off |-> TRUE]]

TopEntities ==
  { Ent("t1", "LINE", "", Some(256)),
    Ent("t2", "LINE", "", Some(0)),
    [Ent("t3", "POLYLINE3D", "", Some(1)) EXCEPT !.malformed = TRUE],
    [Ent("t4", "LINE", "", Some(1)) EXCEPT !.isVisible = FALSE],
    [Ent("t5", "LINE", "", Some(1)) EXCEPT !.layer = "FROZEN"],
    Ent("t6", "XRECORD", "", Some(1)),
    At(Ent("t7", "INSERT", "A", Some(1)), 1, 0),
    At(Ent("t8", "INSERT", "a", Some(256)), 0, 2),
    Ent("t9", "INSERT", "X", Some(1)),
    [Ent("t10", "INSERT", "A", Some(1)) EXCEPT !.malformed = TRUE],
    [At(Ent("t11", "INSERT", "B", Some(2)), 1, 1) EXCEPT
       !.rowCount = 1, !.columnCount = 2, !.columnSpacing = 3, !.xScale = 2],
    [At(Ent("t12", "INSERT", "A", Some(0)), 2, 1) EXCEPT
       !.rotation = 1, !.xScale = 2, !.extrusionDirection = {[x |-> 0, y |-> 0, z |-> 0 - 1]}],
    Ent("t13", "INSERT", "E", Some(1)),
    Ent("t14", "LINE", "", Some(1)),
    [At(Ent("t15", "INSERT", "X", Some(1)), 1, 2) EXCEPT
       !.rowCount = 2, !.columnCount = 1, !.rowSpacing = 1],
    [At(Ent("t16", "INSERT", "A", Some(1)), 2, 0) EXCEPT
       !.rowCount = 2, !.columnCount = 2] }

\* sequences of at most n elements of S
SeqUpTo(S, n) == UNION {[1..k -> S] : k \in 1..n}

Databases ==
  { [entities |-> es, blocks |-> bs, basePoints |-> BasePoints, layers |-> LayerEntries] :
      es \in SeqUpTo(TopEntities, MaxTop), bs \in BlockSets }

(***************************************************************************)
(* Bounds and input sets of the colour harness                             *)
(***************************************************************************)
MaxCalls == 2

TrueColorInputs == {None, Some(0), Some(255), Some(1193046), Some(16777216), Some(0 - 5)}

ColorIndexInputs ==
  {None, Some(0), Some(1), Some(3), Some(255), Some(256), Some(257), Some(300),
   Some(0 - 3), Some(0 - 256), Some(0 - 300)}

RawColorInputs == {None, Some(0), Some(5), Some(256), Some(16711680), Some(16777217)}

LayerNameInputs == {"0", "NOLAYER"}

LayerInfoInputs ==
  { [trueColor |-> None, colorIndex |-> Some(3), color |-> Some(65280)],
    [trueColor |-> Some(74565), colorIndex |-> Some(3), color |-> None],
    [trueColor |-> None, colorIndex |-> Some(300), color |-> Some(6)],
    [trueColor |-> Some(16777300), colorIndex |-> None, color |-> None],
    [trueColor |-> Some(0), colorIndex |-> Some(0), color |-> Some(0)] }

InheritedInputs == {None, Some(255)}

EmptyLayers == [n \in {} |-> [trueColor |-> None, colorIndex |-> None, color |-> None]]

ColorEntities ==
  [trueColor : TrueColorInputs, colorIndex : ColorIndexInputs,
   color : RawColorInputs, layer : LayerNameInputs]

ColorContexts ==
  { [hasLayers |-> FALSE, layers |-> EmptyLayers, inheritedColor |-> ih] :
      ih \in InheritedInputs }
  \cup
  { [hasLayers |-> TRUE, layers |-> [n \in {"0"} |-> li], inheritedColor |-> ih] :
      li \in LayerInfoInputs, ih \in InheritedInputs }

MonochromeInputs == {0, White, 8421504}

(***************************************************************************)
(* State                                                                   *)
(***************************************************************************)
VARIABLES
  monochromeModeEnabled,  \* BaseDrawer.monochromeModeEnabled (static)
  monochromeColor,        \* BaseDrawer.monochromeColor (static)
  cEntity,                \* colour harness: the entity passed to every call
  cCtx,                   \* colour harness: the DrawContext passed to every call
  calls,                  \* colour harness: the calls made so far, with results
  database,               \* ViewportDraw.database
  pc,                     \* "idle": nothing loaded, "render": in the entity loop, "done"
  idx,                    \* position of the entity loop of render (1-based)
  stack,                  \* activations of InsertDrawer.draw, outermost first
  ctx,                    \* ViewportDraw.drawContext (shared by all drawers)
  stats,                  \* renderStats
  out,                    \* ViewportDraw.entities, each object flattened to its leaves
  visited,                \* history: positions whose loop body has started
  ret,                    \* history: the context around the last InsertDrawer.draw
  tCalls,                 \* transform harness: calls of createInsertTransformMatrix
  vCalls,                 \* viewport harness: colours resolved by the drawers of each viewport
  vRequested,             \* viewport harness: whether each viewport asked for monochrome
  pLoops,                 \* fill harness: the boundary paths of one solid hatch
  hatchStyle,             \* fill harness: hatchEntity.hatchStyle (0 Normal, 1 Outer, 2 Ignore)
  pPc,                    \* fill harness: "paths", "processed", "styled", "meshed"
  nestedPolygons,         \* fill harness: the NestedPolygon array of createSolidFillWithHoles
  mesh,                   \* fill harness: what createFilledMesh triangulated, loop by loop
  dimDraws,               \* dimension harness: the calls of DimensionDrawer.draw, with results
  bulgeCalls,             \* bulge harness: the calls of interpolateBulge, with results
  loaded,                 \* history: the databases given to loadDatabase so far
  layerMap,               \* ViewportDraw.layerMap: the Layer2D of every layer name
  layerGroup              \* ViewportDraw.layerGroup.children, as the layers they belong to

colorVars == <<cEntity, cCtx, calls>>

monoVars == <<monochromeModeEnabled, monochromeColor>>

renderVars == <<database, pc, idx, stack, ctx, stats, out, visited, ret>>

transformVars == <<tCalls>>

viewportVars == <<vCalls, vRequested>>

polygonVars == <<pLoops, hatchStyle, pPc, nestedPolygons, mesh>>

drawerVars == <<dimDraws, bulgeCalls>>

loadVars == <<loaded, layerMap, layerGroup>>

vars == <<monochromeModeEnabled, monochromeColor, cEntity, cCtx, calls,
          database, pc, idx, stack, ctx, stats, out, visited, ret, tCalls,
          vCalls, vRequested, pLoops, hatchStyle, pPc, nestedPolygons, mesh,
          dimDraws, bulgeCalls, loaded, layerMap, layerGroup>>

(***************************************************************************)
(* Render state: src/unnamed/part_004 (ViewportDraw)                       *)
(***************************************************************************)
\* render, lines 207-231: the LayerInfo built from a layer table entry
MakeLayerInfo(layerEntry) ==
  LET layerColor ==
        IF IsNumber(layerEntry.trueColor) /\ Val(layerEntry.trueColor) > 0
          THEN Val(layerEntry.trueColor)
        ELSE IF IsNumber(layerEntry.colorIndex)
                /\ Val(layerEntry.colorIndex) > 0 /\ Val(layerEntry.colorIndex) < 256
          THEN getColorFromIndex(Val(layerEntry.colorIndex))
        ELSE IF IsNumber(layerEntry.color) /\ Val(layerEntry.color) > 0
          THEN IF Val(layerEntry.color) > 255
                 THEN Val(layerEntry.color)
                 ELSE getColorFromIndex(Val(layerEntry.color))
        ELSE White
  IN [visible |-> ~layerEntry.frozen /\ ~layerEntry.off,
      frozen |-> layerEntry.frozen,
      color |-> Some(layerColor),
      colorIndex |-> layerEntry.colorIndex,
      trueColor |-> layerEntry.trueColor]

\* render, lines 234-245: the DrawContext handed to every drawer
NewDrawContext(db) ==
  [hasLayers |-> TRUE,
   layers |-> [n \in DOMAIN db.layers |-> MakeLayerInfo(db.layers[n])],
   inheritedColor |-> None,
   accumulatedTransform |-> {}]

NoDatabase ==
  [entities |-> <<>>, blocks |-> NoBlocks, basePoints |-> BasePoints, layers |-> LayerEntries]

NoReturn ==
  [kind |-> "none", before |-> NewDrawContext(NoDatabase),
   after |-> NewDrawContext(NoDatabase), childThrew |-> FALSE]

ZeroStats == [rendered |-> 0, skipped |-> 0, errors |-> 0]

\* a ViewportDraw that has not rendered anything
RenderIdle ==
  /\ database = NoDatabase
  /\ pc = "idle"
  /\ idx = 1
  /\ stack = <<>>
  /\ ctx = NewDrawContext(NoDatabase)
  /\ stats = ZeroStats
  /\ out = <<>>
  /\ visited = {}
  /\ ret = NoReturn

\* the ViewportDraw instances of the page
Viewports == {1, 2}

\* no drawer of any viewport has resolved a colour yet
ViewportIdle ==
  /\ vCalls = <<>>
  /\ vRequested = [v \in Viewports |-> FALSE]

\* loadDatabase has not been called
LoadIdle ==
  /\ loaded = <<>>
  /\ layerMap = <<>>
  /\ layerGroup = {}

\* no drawer has been called on its own
DrawerIdle == dimDraws = <<>> /\ bulgeCalls = <<>>

\* no hatch is being filled
PolygonIdle ==
  /\ pLoops = <<>>
  /\ hatchStyle = 0
  /\ pPc = "paths"
  /\ nestedPolygons = <<>>
  /\ mesh = <<>>

(***************************************************************************)
(* Colour harness: calls of the colour functions on one fixed input        *)
(***************************************************************************)
ColorInit ==
  /\ monochromeModeEnabled = FALSE
  /\ monochromeColor = 0
  /\ cEntity \in ColorEntities
  /\ cCtx \in ColorContexts
  /\ calls = <<>>
  /\ RenderIdle
  /\ tCalls = <<>>
  /\ ViewportIdle
  /\ PolygonIdle
  /\ DrawerIdle
  /\ LoadIdle

CallGetEntityColor ==
  /\ Len(calls) < MaxCalls
  /\ calls' = Append(calls,
       [fn |-> "getEntityColor", result |-> getEntityColor(cEntity, cCtx, White)])
  /\ UNCHANGED <<cEntity, cCtx, monoVars, renderVars, transformVars, viewportVars, polygonVars, drawerVars, loadVars>>

CallBaseGetEntityColor ==
  /\ Len(calls) < MaxCalls
  /\ calls' = Append(calls,
       [fn |-> "BaseDrawer.getEntityColor",
        result |-> BaseGetEntityColor(cEntity, cCtx, White,
                                      monochromeModeEnabled, monochromeColor)])
  /\ UNCHANGED <<cEntity, cCtx, monoVars, renderVars, transformVars, viewportVars, polygonVars, drawerVars, loadVars>>

SetGlobalMonochromeMode ==
  \E enabled \in BOOLEAN, color \in MonochromeInputs :
    /\ monochromeModeEnabled' = enabled
    /\ monochromeColor' = (IF color = White THEN White ELSE 0)
    /\ UNCHANGED <<colorVars, renderVars, transformVars, viewportVars, polygonVars, drawerVars, loadVars>>

ColorNext ==
  \/ CallGetEntityColor
  \/ CallBaseGetEntityColor
  \/ SetGlobalMonochromeMode

ColorSpec == ColorInit /\ [][ColorNext]_vars

(***************************************************************************)
(* Transform harness: calls of createInsertTransformMatrix                 *)
(***************************************************************************)
MaxTransformCalls == 1

InsertionPointInputs == {[x |-> 0, y |-> 0], [x |-> 1, y |-> 0], [x |-> 2, y |-> 3]}

BasePointInputs == {{}, {[x |-> 1, y |-> 2]}}

ScaleInputs == {[x |-> 1, y |-> 1], [x |-> 2, y |-> 3]}

RotationInputs == 0..3

ExtrusionInputs ==
  {{}, {[x |-> 0, y |-> 0, z |-> 1]}, {[x |-> 0, y |-> 0, z |-> 0 - 1]}}

ScaleFactorInputs == {1, 2}

\* the seventh argument: {} when the caller leaves it out
ApplyBasePointOffsetInputs == {{}, {TRUE}, {FALSE}}

\* applyBasePointOffset: boolean = true
ApplyBasePointOffsetArg(arg) == IF arg = {} THEN TRUE ELSE CHOOSE b \in arg : TRUE

TransformInit ==
  /\ monochromeModeEnabled = FALSE
  /\ monochromeColor = 0
  /\ cEntity = [trueColor |-> None, colorIndex |-> None, color |-> None, layer |-> "0"]
  /\ cCtx = [hasLayers |-> FALSE, layers |-> EmptyLayers, inheritedColor |-> None]
  /\ calls = <<>>
  /\ RenderIdle
  /\ tCalls = <<>>
  /\ ViewportIdle
  /\ PolygonIdle
  /\ DrawerIdle
  /\ LoadIdle

CallCreateInsertTransformMatrix ==
  /\ Len(tCalls) < MaxTransformCalls
  /\ \E insertionPoint \in InsertionPointInputs, basePoint \in BasePointInputs,
        scale \in ScaleInputs, rotation \in RotationInputs,
        extrusionDirection \in ExtrusionInputs, scaleFactor \in ScaleFactorInputs,
        applyBasePointOffset \in ApplyBasePointOffsetInputs :
       tCalls' = Append(tCalls,
         [insertionPoint |-> insertionPoint, basePoint |-> basePoint,
          scale |-> scale, rotation |-> rotation,
          extrusionDirection |-> extrusionDirection, scaleFactor |-> scaleFactor,
          applyBasePointOffset |-> applyBasePointOffset,
          result |-> createInsertTransformMatrix(
                       insertionPoint, basePoint, scale, rotation, extrusionDirection,
                       scaleFactor, ApplyBasePointOffsetArg(applyBasePointOffset))])
  /\ UNCHANGED <<colorVars, monoVars, renderVars, viewportVars, polygonVars, drawerVars, loadVars>>

TransformNext == CallCreateInsertTransformMatrix

TransformSpec == TransformInit /\ [][TransformNext]_vars

(***************************************************************************)
(* Viewport harness: two ViewportDraw instances, each with its own drawers *)
(* and context, and the static monochrome switch of BaseDrawer             *)
(***************************************************************************)
MaxViewportCalls == 2

ViewportEntities ==
  {e \in ColorEntities :
     /\ e.trueColor = None /\ e.color = None /\ e.layer = "0"
     /\ e.colorIndex \in {Some(0), Some(1), Some(256)}}

ViewportInit ==
  /\ monochromeModeEnabled = FALSE
  /\ monochromeColor = 0
  /\ cEntity \in ViewportEntities
  /\ cCtx \in ColorContexts
  /\ calls = <<>>
  /\ RenderIdle
  /\ tCalls = <<>>
  /\ vCalls = <<>>
  /\ vRequested = [v \in Viewports |-> FALSE]
  /\ PolygonIdle
  /\ DrawerIdle
  /\ LoadIdle

\* the application switches monochrome on or off for viewport v: the only
\* switch there is, BaseDrawer.setGlobalMonochromeMode
ViewportSetMonochrome ==
  \E v \in Viewports, enabled \in BOOLEAN, color \in MonochromeInputs :
    /\ monochromeModeEnabled' = enabled
    /\ monochromeColor' = (IF color = White THEN White ELSE 0)
    /\ vRequested' = [vRequested EXCEPT ![v] = enabled]
    /\ UNCHANGED <<colorVars, renderVars, transformVars, vCalls, polygonVars, drawerVars, loadVars>>

\* a drawer of viewport v resolves the colour of the entity
ViewportResolve ==
  \E v \in Viewports :
    /\ Len(vCalls) < MaxViewportCalls
    /\ vCalls' = Append(vCalls,
         [viewport |-> v, requested |-> vRequested[v],
          result |-> BaseGetEntityColor(cEntity, cCtx, White,
                                        monochromeModeEnabled, monochromeColor)])
    /\ UNCHANGED <<colorVars, monoVars, renderVars, transformVars, vRequested, polygonVars, drawerVars, loadVars>>

ViewportNext ==
  \/ ViewportSetMonochrome
  \/ ViewportResolve

ViewportSpec == ViewportInit /\ [][ViewportNext]_vars

(***************************************************************************)
(* InsertDrawer: src/src/three/WipeoutDrawer.ts, lines 393-632             *)
(***************************************************************************)
\* draw, lines 440-454: exact key first, then the first key equal in lower
\* case; "" when the block is not found
LookupBlock(blocks, blockName) ==
  IF blockName \in DOMAIN blocks THEN blockName
  ELSE IF \E n \in DOMAIN blocks : Lower(n) = Lower(blockName)
    THEN CHOOSE n \in DOMAIN blocks : Lower(n) = Lower(blockName)
  ELSE ""

BlockEntities(blocks, matchedBlockName) ==
  IF matchedBlockName \in DOMAIN blocks THEN blocks[matchedBlockName] ELSE <<>>

\* draw, lines 457-469: the base point of the block, {} when it has none
LookupBasePoint(basePoints, blockName, matchedBlockName) ==
  IF matchedBlockName \in DOMAIN basePoints THEN {basePoints[matchedBlockName]}
  ELSE IF \E n \in DOMAIN basePoints : Lower(n) = Lower(blockName)
    THEN {basePoints[CHOOSE n \in DOMAIN basePoints : Lower(n) = Lower(blockName)]}
  ELSE {}

\* draw, lines 472-481: the transform of this INSERT alone
InsertTransform(db, entity) ==
  createInsertTransformMatrix(
    entity.insertionPoint,
    LookupBasePoint(db.basePoints, entity.name, LookupBlock(db.blocks, entity.name)),
    [x |-> OrOne(entity.xScale), y |-> OrOne(entity.yScale)],
    entity.rotation,
    entity.extrusionDirection,
    ScaleFactor,
    TRUE)

\* draw, lines 485-491
FinalTransformMatrix(context, transformMatrix) ==
  IF context.accumulatedTransform # {}
    THEN multiplyMatrices(CHOOSE m \in context.accumulatedTransform : TRUE, transformMatrix)
    ELSE transformMatrix

\* draw, line 495
SetAccumulated(context, finalTransformMatrix) ==
  [context EXCEPT !.accumulatedTransform = {finalTransformMatrix}]

\* variant of the finally block that leaves the context as it is
FinallyRestore_Skipped(context, prevAccumulatedTransform) == context

\* draw, lines 507-510: the finally block
FinallyRestore(context, prevAccumulatedTransform) ==
  [context EXCEPT !.accumulatedTransform = prevAccumulatedTransform]

\* variant of drawBlockEntities that resolves the parent without the context
DrawBlockInheritedColor_NoContext(parentEntity, context) ==
  getEntityColor(parentEntity, [context EXCEPT !.inheritedColor = None], White)

\* drawBlockEntities, line 544
DrawBlockInheritedColor(parentEntity, context) ==
  getEntityColor(parentEntity, context, White)

\* Object3D.applyMatrix4 on a group, seen from its leaves
ApplyMatrix4(leaves, m) ==
  [i \in 1..Len(leaves) |-> [leaves[i] EXCEPT !.matrix = multiplyMatrices(m, @)]]

\* draw, lines 516-517
IsArrayed(entity) ==
  /\ (entity.rowCount > 1 \/ entity.columnCount > 1)
  /\ (entity.rowSpacing # 0 \/ entity.columnSpacing # 0)

\* variant of createArrayedInsert that moves the columns along y and the rows
\* along x
createArrayedInsert_AxesSwapped(entity, leaves) ==
  LET rowCount == OrOne(entity.rowCount)
      columnCount == OrOne(entity.columnCount)
      rowSpacing == entity.rowSpacing * ScaleFactor
      columnSpacing == entity.columnSpacing * ScaleFactor
      xScale == OrOne(entity.xScale)
      yScale == OrOne(entity.yScale)
      n == Len(leaves)
  IN [j \in 1..(rowCount * columnCount * n) |->
        LET cell == (j - 1) \div n
            row == cell \div columnCount
            col == cell % columnCount
            leaf == leaves[((j - 1) % n) + 1]
        IN [leaf EXCEPT !.matrix.tx = @ + row * rowSpacing * yScale,
                        !.matrix.ty = @ + col * columnSpacing * xScale]]

\* createArrayedInsert, lines 567-596: cell (0,0) is the group itself, every
\* other cell a clone whose position is shifted
createArrayedInsert(entity, leaves) ==
  LET rowCount == OrOne(entity.rowCount)
      columnCount == OrOne(entity.columnCount)
      rowSpacing == entity.rowSpacing * ScaleFactor
      columnSpacing == entity.columnSpacing * ScaleFactor
      xScale == OrOne(entity.xScale)
      yScale == OrOne(entity.yScale)
      n == Len(leaves)
  IN [j \in 1..(rowCount * columnCount * n) |->
        LET cell == (j - 1) \div n
            row == cell \div columnCount
            col == cell % columnCount
            leaf == leaves[((j - 1) % n) + 1]
        IN [leaf EXCEPT !.matrix.tx = @ + col * columnSpacing * xScale,
                        !.matrix.ty = @ + row * rowSpacing * yScale]]

\* draw, lines 513-519: what the returned object shows of the group
FinishGroup(entity, group, finalTransformMatrix) ==
  IF IsArrayed(entity)
    THEN createArrayedInsert(entity, ApplyMatrix4(group, finalTransformMatrix))
    ELSE ApplyMatrix4(group, finalTransformMatrix)

\* variant of draw that builds the placeholder and never adds it to the group
MissingBlockGroup_NotAdded(placeholder) == <<>>

\* draw, lines 503-505: the group of an INSERT whose block has no entities
MissingBlockGroup(placeholder) == <<placeholder>>

\* createPlaceholder, lines 601-632
Placeholder(entity, context, anc) ==
  [entity |-> entity, type |-> "PLACEHOLDER", color |-> 16737792, resolved |-> 16737792,
   matrix |-> Identity, seenInherited |-> context.inheritedColor, anc |-> anc]

(***************************************************************************)
(* Drawer registry and dispatch: src/unnamed/part_004                      *)
(***************************************************************************)
\* render, lines 270-317: the registered drawers in registration order, each
\* with the type tags its canDraw accepts
Drawers ==
  << [name |-> "LineDrawer", types |-> {"LINE"}],
     [name |-> "PolylineDrawer",
      types |-> {"LWPOLYLINE", "POLYLINE", "POLYLINE2D", "POLYLINE3D"}],
     [name |-> "CircleDrawer", types |-> {"CIRCLE"}],
     [name |-> "ArcDrawer", types |-> {"ARC"}],
     [name |-> "EllipseDrawer", types |-> {"ELLIPSE"}],
     [name |-> "TextMeshDrawer", types |-> {"TEXT", "MTEXT"}],
     [name |-> "DimensionDrawer", types |-> {"DIMENSION"}],
     [name |-> "LeaderDrawer", types |-> {"LEADER"}],
     [name |-> "AttribDrawer", types |-> {"ATTDEF", "ATTRIB"}],
     [name |-> "InsertDrawer", types |-> {"INSERT"}],
     [name |-> "SplineDrawer", types |-> {"SPLINE"}],
     [name |-> "HatchDrawer", types |-> {"HATCH", "MPOLYGON"}],
     [name |-> "SolidDrawer", types |-> {"SOLID"}],
     [name |-> "FaceDrawer", types |-> {"3DFACE"}],
     [name |-> "RegionDrawer", types |-> {"REGION"}],
     [name |-> "ThreeDSolidDrawer", types |-> {"3DSOLID"}],
     [name |-> "BodyDrawer", types |-> {"BODY"}],
     [name |-> "PointDrawer", types |-> {"POINT"}],
     [name |-> "MlineDrawer", types |-> {"MLINE"}],
     [name |-> "RayXlineDrawer", types |-> {"RAY", "XLINE"}],
     [name |-> "ImageDrawer", types |-> {"IMAGE"}],
     [name |-> "WipeoutDrawer", types |-> {"WIPEOUT"}],
     [name |-> "TableDrawer", types |-> {"ACAD_TABLE"}],
     [name |-> "ShapeDrawer", types |-> {"SHAPE"}],
     [name |-> "TraceDrawer", types |-> {"TRACE"}],
     [name |-> "OleFrameDrawer", types |-> {"OLEFRAME", "OLE2FRAME"}],
     [name |-> "ProxyDrawer", types |-> {"PROXY"}],
     [name |-> "ToleranceDrawer", types |-> {"TOLERANCE"}],
     [name |-> "SectionDrawer", types |-> {"SECTION"}],
     [name |-> "VertexDrawer", types |-> {"VERTEX"}],
     [name |-> "ViewportDrawer", types |-> {"VIEWPORT"}] >>

\* variant of canDraw in which the polyline drawer takes every tag ending in LINE
canDraw_AnyLine(drawer, entity) ==
  \/ entity.type \in drawer.types
  \/ /\ drawer.name = "PolylineDrawer"
     /\ entity.type \in {"LINE", "MLINE", "XLINE", "SPLINE"}

\* canDraw of every registered drawer: a comparison of entity.type with tags
canDraw(drawer, entity) == entity.type \in drawer.types

\* the drawers loop of render (lines 366-369) and of createEntityFromDrawers
\* (lines 468-469): the first drawer, in the order tried, whose canDraw
\* accepts the entity; "" when none does
FirstAccepting(drawers, entity) ==
  IF \E i \in DOMAIN drawers : canDraw(drawers[i], entity)
    THEN drawers[CHOOSE i \in DOMAIN drawers :
                   /\ canDraw(drawers[i], entity)
                   /\ \A j \in 1..(i - 1) : ~canDraw(drawers[j], entity)].name
    ELSE ""

\* the entity goes to LineDrawer or PolylineDrawer
CanDrawLeaf(entity) == FirstAccepting(Drawers, entity) \in {"LineDrawer", "PolylineDrawer"}

\* the entity goes to InsertDrawer
CanDrawInsert(entity) == FirstAccepting(Drawers, entity) = "InsertDrawer"

\* PolylineDrawer.convertVertices3d dereferences every vertex: a POLYLINE3D
\* with an undefined vertex makes draw throw
DrawThrows(entity) == entity.type = "POLYLINE3D" /\ entity.malformed

\* InsertDrawer.draw throws inside its own try when insertionPoint is undefined
InsertThrows(entity) == entity.type = "INSERT" /\ entity.malformed

\* render, lines 350-362: invisible entity, or entity on a frozen/off layer
TopLevelHidden(db, entity) ==
  \/ entity.isVisible = FALSE
  \/ /\ entity.layer \in DOMAIN db.layers
     /\ (db.layers[entity.layer].frozen \/ db.layers[entity.layer].off)

\* variant of createEntityFromDrawers that never writes the inherited colour
WrapperEnter_Ignored(context, inheritedColor) == context

\* createEntityFromDrawers, lines 463-466
WrapperEnter(context, inheritedColor) ==
  IF IsNumber(inheritedColor)
    THEN [context EXCEPT !.inheritedColor = inheritedColor]
    ELSE context

\* variant of createEntityFromDrawers that forgets to restore
WrapperRestore_Skipped(context, prevInheritedColor) == context

\* createEntityFromDrawers, lines 473-475, 479-481, 488-490
WrapperRestore(context, prevInheritedColor) ==
  [context EXCEPT !.inheritedColor = prevInheritedColor]

\* variant of render whose catch leaves the entity loop
LoopAfterCatch_Abort(i, n) == n + 1

\* render, lines 348 and 404-407: the catch is inside the loop body
LoopAfterCatch(i, n) == i + 1

Top == stack[Len(stack)]

AtTop == stack = <<>> /\ pc = "render" /\ idx <= Len(database.entities)

AtChild == stack # <<>> /\ Top.k <= Len(Top.children)

\* the entity the dispatch is about to handle
SiteEntity == IF stack = <<>> THEN database.entities[idx] ELSE Top.children[Top.k]

\* the INSERT entities being expanded around it, outermost first
SiteAnc == IF stack = <<>> THEN <<>> ELSE Top.anc

\* the drawers loop is reached for the entity
SiteReady ==
  \/ AtTop /\ ~TopLevelHidden(database, SiteEntity)
  \/ AtChild

\* the context a drawer sees: directly in render, behind createEntityFromDrawers
\* (called by drawBlockEntities with the parent's colour) for a block child
DrawCtx ==
  IF stack = <<>> THEN ctx ELSE WrapperEnter(ctx, Some(Top.inheritedColor))

\* initializeLayers, lines 137-144, and the Layer2D constructor, line 26:
\* layerInfo.trueColor ?? layerInfo.color ?? 0x000000
Layer2DColor(layerEntry) ==
  IF IsNumber(layerEntry.trueColor) THEN Val(layerEntry.trueColor)
  ELSE IF IsNumber(layerEntry.colorIndex)
          /\ Val(layerEntry.colorIndex) > 0 /\ Val(layerEntry.colorIndex) < 256
    THEN getColorFromIndex(Val(layerEntry.colorIndex))
  ELSE IF IsNumber(layerEntry.color) /\ Val(layerEntry.color) > 0
    THEN IF Val(layerEntry.color) > 255
           THEN Val(layerEntry.color)
           ELSE getColorFromIndex(Val(layerEntry.color))
  ELSE White

\* getOrCreateLayer: a layer missing from the table is created without a
\* colour, which the Layer2D constructor turns into black
LayerObjectColor(db, layerName) ==
  IF layerName \in DOMAIN db.layers THEN Layer2DColor(db.layers[layerName]) ELSE 0

\* Layer2D.applyColorToObject: the material of a Line or Mesh gets the three
\* low bytes of the colour; any other Object3D (a Group) is left alone
applyColorToObject(leaves, isLineOrMesh, color) ==
  IF isLineOrMesh
    THEN [i \in 1..Len(leaves) |-> [leaves[i] EXCEPT !.color = color % 16777216]]
    ELSE leaves

\* Layer2D.addObject, called by render for every object a drawer returned
addObject(db, entity, leaves) ==
  applyColorToObject(leaves, CanDrawLeaf(entity), LayerObjectColor(db, entity.layer))

\* the Line a LineDrawer or PolylineDrawer returns; resolved keeps the colour
\* the drawer gave it
LeafRecord(entity, context) ==
  [entity |-> entity, type |-> entity.type,
   color |-> BaseGetEntityColor(entity, context, White,
                                monochromeModeEnabled, monochromeColor),
   resolved |-> BaseGetEntityColor(entity, context, White,
                                   monochromeModeEnabled, monochromeColor),
   matrix |-> Identity, seenInherited |-> context.inheritedColor, anc |-> SiteAnc]

Visit == visited' = (IF stack = <<>> THEN visited \cup {idx} ELSE visited)

\* variant of render that puts the new object in front of the list
PushEntity_Front(entities, object) == <<object>> \o entities

\* render, line 386: this.entities.push(object)
PushEntity(entities, object) == Append(entities, object)

\* variant of render that counts an entity nobody drew as an error
CountNoObject_AsError(renderStats, threw) == [renderStats EXCEPT !.errors = @ + 1]

\* render, lines 397-407: skipped when no drawer produced an object, errors
\* when the loop body threw
CountNoObject(renderStats, threw) ==
  IF threw THEN [renderStats EXCEPT !.errors = @ + 1]
           ELSE [renderStats EXCEPT !.skipped = @ + 1]

\* createLayer, lines 163-180: an empty Layer2D, made while database number
\* load is the current one
NewLayer(load) == [load |-> load, objects |-> {}]

\* variant of initializeLayers that leaves the layer group as it is
ClearLayerGroup_Skipped(children) == children

\* initializeLayers, lines 113-115: every child leaves the layer group
ClearLayerGroup(children) == {}

\* initializeLayers, lines 111 and 117-156: the layer map is emptied, then
\* gets a layer for every entry of the layer table, and the layer "0"
initializeLayers(db, load) ==
  [n \in (DOMAIN db.layers) \cup {"0"} |-> NewLayer(load)]

\* what initializeLayers leaves in the layer group: createLayer adds the
\* group of every layer it makes
LayerGroupAfterInit(children, db, load) ==
  ClearLayerGroup(children)
    \cup {[name |-> n, load |-> load] : n \in DOMAIN initializeLayers(db, load)}

\* getOrCreateLayer, lines 185-191
getOrCreateLayer(layers, name, load) ==
  IF name \in DOMAIN layers THEN layers
  ELSE [n \in (DOMAIN layers) \cup {name} |->
          IF n \in DOMAIN layers THEN layers[n] ELSE NewLayer(load)]

\* the layer group after getOrCreateLayer
LayerGroupWith(children, layers, name, load) ==
  IF name \in DOMAIN layers THEN children
  ELSE children \cup {[name |-> name, load |-> load]}

\* Layer2D.addObject: the object joins the objects of the layer
LayerAddObject(layers, name, object) ==
  [layers EXCEPT ![name].objects = @ \cup {object}]

\* variant of clearEntities that keeps the entity list
clearEntities_Kept(entities) == entities

\* clearEntities, lines 523-532: every entity leaves its parent and the list
\* becomes empty
clearEntities(entities) == <<>>

\* clearEntities, lines 518-521: layer.clear() on every layer of the map
ClearLayers(layers) ==
  [n \in DOMAIN layers |-> [layers[n] EXCEPT !.objects = {}]]

\* variant of render that counts a drawn entity twice
CountRendered_Twice(renderStats) == [renderStats EXCEPT !.rendered = @ + 2]

\* render, line 388: renderStats.rendered++
CountRendered(renderStats) == [renderStats EXCEPT !.rendered = @ + 1]

\* a drawer returned an object: render lines 371-392, or
\* createEntityFromDrawers lines 471-476 followed by group.add
DeliverObject(callerStack, entity, leaves, ctxAfter, prevInheritedColor) ==
  IF callerStack = <<>>
    THEN /\ out' = PushEntity(out, [index |-> idx, entity |-> entity,
                                    leaves |-> addObject(database, entity, leaves),
                                    load |-> Len(loaded)])
         /\ layerMap' = LayerAddObject(
                           getOrCreateLayer(layerMap, entity.layer, Len(loaded)),
                           entity.layer, [load |-> Len(loaded), index |-> idx])
         /\ layerGroup' = LayerGroupWith(layerGroup, layerMap, entity.layer, Len(loaded))
         /\ stats' = CountRendered(stats)
         /\ idx' = idx + 1
         /\ stack' = <<>>
         /\ ctx' = ctxAfter
    ELSE /\ stack' = [callerStack EXCEPT ![Len(callerStack)].group = @ \o leaves,
                                         ![Len(callerStack)].k = @ + 1]
         /\ ctx' = WrapperRestore(ctxAfter, prevInheritedColor)
         /\ UNCHANGED <<out, stats, idx, layerMap, layerGroup>>

\* no object: the drawer threw (render lines 404-407, createEntityFromDrawers
\* lines 477-483) or no drawer took the entity (lines 397-403, 487-491)
DeliverNothing(callerStack, threw, ctxAfter, prevInheritedColor) ==
  IF callerStack = <<>>
    THEN /\ stats' = CountNoObject(stats, threw)
         /\ idx' = IF threw THEN LoopAfterCatch(idx, Len(database.entities))
                            ELSE idx + 1
         /\ stack' = <<>>
         /\ ctx' = ctxAfter
         /\ UNCHANGED <<out, layerMap, layerGroup>>
    ELSE /\ stack' = [callerStack EXCEPT ![Len(callerStack)].k = @ + 1,
                                         ![Len(callerStack)].childThrew = @ \/ threw]
         /\ ctx' = WrapperRestore(ctxAfter, prevInheritedColor)
         /\ UNCHANGED <<out, stats, idx, layerMap, layerGroup>>

(***************************************************************************)
(* Actions                                                                 *)
(***************************************************************************)
Init ==
  /\ monochromeModeEnabled = FALSE
  /\ monochromeColor = 0
  /\ cEntity = [trueColor |-> None, colorIndex |-> None, color |-> None, layer |-> "0"]
  /\ cCtx = [hasLayers |-> FALSE, layers |-> EmptyLayers, inheritedColor |-> None]
  /\ calls = <<>>
  /\ database \in Databases
  /\ pc = "render"
  /\ idx = 1
  /\ stack = <<>>
  /\ ctx = NewDrawContext(database)
  /\ stats = ZeroStats
  /\ out = <<>>
  /\ visited = {}
  /\ ret = NoReturn
  /\ tCalls = <<>>
  /\ ViewportIdle
  /\ PolygonIdle
  /\ DrawerIdle
  /\ loaded = <<database>>
  /\ layerMap = initializeLayers(database, 1)
  /\ layerGroup = LayerGroupAfterInit({}, database, 1)

\* render, lines 351-362
StepSkipHidden ==
  /\ AtTop
  /\ TopLevelHidden(database, SiteEntity)
  /\ stats' = [stats EXCEPT !.skipped = @ + 1]
  /\ idx' = idx + 1
  /\ Visit
  /\ UNCHANGED <<database, pc, stack, ctx, out, ret, colorVars, monoVars, transformVars, viewportVars, polygonVars, drawerVars, loadVars>>

\* a LINE or POLYLINE3D drawer returns its object
StepLeafDrawn ==
  /\ SiteReady
  /\ CanDrawLeaf(SiteEntity) /\ ~DrawThrows(SiteEntity)
  /\ DeliverObject(stack, SiteEntity, <<LeafRecord(SiteEntity, DrawCtx)>>,
                   DrawCtx, ctx.inheritedColor)
  /\ Visit
  /\ UNCHANGED <<database, pc, ret, colorVars, monoVars, transformVars, viewportVars, polygonVars, drawerVars, loaded>>

\* the drawer throws
StepLeafThrows ==
  /\ SiteReady
  /\ CanDrawLeaf(SiteEntity) /\ DrawThrows(SiteEntity)
  /\ DeliverNothing(stack, TRUE, DrawCtx, ctx.inheritedColor)
  /\ Visit
  /\ UNCHANGED <<database, pc, ret, colorVars, monoVars, transformVars, viewportVars, polygonVars, drawerVars, loaded>>

\* no registered drawer accepts the entity
StepNoDrawer ==
  /\ SiteReady
  /\ ~CanDrawLeaf(SiteEntity) /\ ~CanDrawInsert(SiteEntity)
  /\ DeliverNothing(stack, FALSE, DrawCtx, ctx.inheritedColor)
  /\ Visit
  /\ UNCHANGED <<database, pc, ret, colorVars, monoVars, transformVars, viewportVars, polygonVars, drawerVars, loaded>>

\* InsertDrawer.draw fails before it touches the context (line 472) and
\* returns the empty, untransformed group from its catch (lines 521-525)
StepInsertThrows ==
  /\ SiteReady
  /\ CanDrawInsert(SiteEntity) /\ InsertThrows(SiteEntity)
  /\ Len(stack) < MaxDepth
  /\ DeliverObject(stack, SiteEntity, <<>>, DrawCtx, ctx.inheritedColor)
  /\ ret' = [kind |-> "throws", before |-> DrawCtx, after |-> DrawCtx,
             childThrew |-> FALSE]
  /\ Visit
  /\ UNCHANGED <<database, pc, colorVars, monoVars, transformVars, viewportVars, polygonVars, drawerVars, loaded>>

\* InsertDrawer.draw finds no entities for the block: placeholder (lines 502-506)
StepInsertPlaceholder ==
  /\ SiteReady
  /\ CanDrawInsert(SiteEntity) /\ ~InsertThrows(SiteEntity)
  /\ Len(stack) < MaxDepth
  /\ BlockEntities(database.blocks, LookupBlock(database.blocks, SiteEntity.name)) = <<>>
  /\ LET final == FinalTransformMatrix(DrawCtx, InsertTransform(database, SiteEntity))
         during == SetAccumulated(DrawCtx, final)
         after == FinallyRestore(during, DrawCtx.accumulatedTransform)
     IN /\ DeliverObject(stack, SiteEntity,
                         FinishGroup(SiteEntity,
                                     MissingBlockGroup(Placeholder(SiteEntity, during,
                                                                   Append(SiteAnc, SiteEntity))),
                                     final),
                         after, ctx.inheritedColor)
        /\ ret' = [kind |-> "missing", before |-> DrawCtx, after |-> after,
                   childThrew |-> FALSE]
  /\ Visit
  /\ UNCHANGED <<database, pc, colorVars, monoVars, transformVars, viewportVars, polygonVars, drawerVars, loaded>>

\* InsertDrawer.draw up to the loop of drawBlockEntities (lines 432-501, 544)
StepInsertEnter ==
  /\ SiteReady
  /\ CanDrawInsert(SiteEntity) /\ ~InsertThrows(SiteEntity)
  /\ Len(stack) < MaxDepth
  /\ LET matched == LookupBlock(database.blocks, SiteEntity.name)
         children == BlockEntities(database.blocks, matched)
         final == FinalTransformMatrix(DrawCtx, InsertTransform(database, SiteEntity))
         during == SetAccumulated(DrawCtx, final)
     IN /\ children # <<>>
        /\ stack' = Append(stack,
             [entity |-> SiteEntity,
              blockName |-> matched,
              children |-> children,
              k |-> 1,
              prevAccumulatedTransform |-> DrawCtx.accumulatedTransform,
              finalTransformMatrix |-> final,
              inheritedColor |-> DrawBlockInheritedColor(SiteEntity, during),
              group |-> <<>>,
              prevInheritedColor |-> ctx.inheritedColor,
              entryCtx |-> DrawCtx,
              anc |-> Append(SiteAnc, SiteEntity),
              childThrew |-> FALSE])
        /\ ctx' = during
  /\ Visit
  /\ UNCHANGED <<database, pc, idx, stats, out, ret, colorVars, monoVars, transformVars, viewportVars, polygonVars, drawerVars, loadVars>>

\* the call stack of the engine is exhausted: the call of drawer.draw in
\* createEntityFromDrawers throws a RangeError, caught at lines 477-483
StepInsertOverflow ==
  /\ AtChild
  /\ CanDrawInsert(SiteEntity)
  /\ Len(stack) >= MaxDepth
  /\ DeliverNothing(stack, TRUE, DrawCtx, ctx.inheritedColor)
  /\ Visit
  /\ UNCHANGED <<database, pc, ret, colorVars, monoVars, transformVars, viewportVars, polygonVars, drawerVars, loaded>>

\* drawBlockEntities has handled every child: finally, applyMatrix4, array,
\* return (lines 507-525), then the caller takes the object
InsertReturn ==
  /\ stack # <<>>
  /\ Top.k > Len(Top.children)
  /\ LET after == FinallyRestore(ctx, Top.prevAccumulatedTransform)
     IN /\ DeliverObject(SubSeq(stack, 1, Len(stack) - 1), Top.entity,
                         FinishGroup(Top.entity, Top.group, Top.finalTransformMatrix),
                         after, Top.prevInheritedColor)
        /\ ret' = [kind |-> "normal", before |-> Top.entryCtx, after |-> after,
                   childThrew |-> Top.childThrew]
  /\ UNCHANGED <<database, pc, visited, colorVars, monoVars, transformVars, viewportVars, polygonVars, drawerVars, loaded>>

\* render, lines 411-443: the loop is over
RenderDone ==
  /\ stack = <<>>
  /\ pc = "render"
  /\ idx > Len(database.entities)
  /\ pc' = "done"
  /\ UNCHANGED <<database, idx, stack, ctx, stats, out, visited, ret, colorVars, monoVars, transformVars, viewportVars, polygonVars, drawerVars, loadVars>>

Next ==
  \/ StepSkipHidden
  \/ StepLeafDrawn
  \/ StepLeafThrows
  \/ StepNoDrawer
  \/ StepInsertThrows
  \/ StepInsertPlaceholder
  \/ StepInsertEnter
  \/ StepInsertOverflow
  \/ InsertReturn
  \/ RenderDone

Spec == Init /\ [][Next]_vars

(***************************************************************************)
(* Claims about the traversal (checked under Spec)                         *)
(***************************************************************************)
Range(seq) == {seq[i] : i \in DOMAIN seq}

\* every leaf object created so far, delivered or still in a group being built
AllLeaves ==
  UNION ({Range(out[i].leaves) : i \in DOMAIN out}
         \cup {Range(stack[i].group) : i \in DOMAIN stack})

DrawnLeaves == {leaf \in AllLeaves : leaf.type # "PLACEHOLDER"}

ByBlock(entity) == entity.trueColor = None /\ entity.colorIndex = Some(0)

\* C1: around every InsertDrawer.draw, the children's createEntityFromDrawers
\* calls included, the accumulated transform and the inherited colour of the
\* context are the same after the call as before it, on every exit path.
C1_ContextRestored ==
  ret.kind # "none" =>
    /\ ret.after.accumulatedTransform = ret.before.accumulatedTransform
    /\ ret.after.inheritedColor = ret.before.inheritedColor

\* a nested INSERT returned normally although one of its children threw
C1_Witness ==
  /\ ret.kind = "normal"
  /\ ret.childThrew
  /\ ret.before.accumulatedTransform # {}
  /\ ret.before.inheritedColor # None
  /\ ret.after = ret.before

\* C2: an INSERT whose block is already being expanded on the call path does
\* not recurse into that block again, so no block name occurs twice among the
\* active InsertDrawer.draw calls.
C2_NoReentry ==
  \A i, j \in DOMAIN stack :
    i < j => stack[i].blockName # stack[j].blockName

\* C3: a BYBLOCK LINE directly inside an INSERT with an explicit colour index
\* gets that INSERT's colour, and a BYBLOCK LINE inside a BYBLOCK INSERT inside
\* an outermost INSERT gets the outermost INSERT's resolved colour.
C3_ByBlockChain ==
  \A leaf \in DrawnLeaves :
    LET n == Len(leaf.anc) IN
    /\ ( /\ n >= 1
         /\ ByBlock(leaf.entity)
         /\ leaf.anc[n].trueColor = None
         /\ IsNumber(leaf.anc[n].colorIndex)
         /\ Val(leaf.anc[n].colorIndex) \in 1..255 )
       => leaf.color = getColorFromIndex(Val(leaf.anc[n].colorIndex))
    /\ ( /\ n = 2
         /\ ByBlock(leaf.entity)
         /\ ByBlock(leaf.anc[2]) )
       => leaf.color = getEntityColor(leaf.anc[1], NewDrawContext(database), White)

\* the red INSERT t7 of block A, its BYBLOCK INSERT a2 of block B, the BYBLOCK LINE b1
C3_Witness ==
  \E leaf \in DrawnLeaves :
    /\ Len(leaf.anc) = 2
    /\ leaf.anc[1].colorIndex = Some(1)
    /\ ByBlock(leaf.anc[2])
    /\ ByBlock(leaf.entity)
    /\ leaf.entity.type = "LINE"
    /\ leaf.color = 16711680

RECURSIVE ResolveChain(_, _)
\* the colour a chain of nested INSERTs hands to its innermost children:
\* each INSERT is resolved with the colour handed down by the one around it
ResolveChain(db, anc) ==
  IF anc = <<>> THEN None
  ELSE Some(getEntityColor(
              anc[Len(anc)],
              [NewDrawContext(db) EXCEPT
                 !.inheritedColor = ResolveChain(db, SubSeq(anc, 1, Len(anc) - 1))],
              White))

\* C4: every entity is drawn with the inherited colour of its immediately
\* containing INSERT, whatever was resolved before it, and with no inherited
\* colour (and no accumulated transform) at top level.
C4_NoSiblingLeak ==
  /\ \A leaf \in DrawnLeaves : leaf.seenInherited = ResolveChain(database, leaf.anc)
  /\ \A i \in DOMAIN stack :
       Some(stack[i].inheritedColor) = ResolveChain(database, stack[i].anc)
  /\ stack = <<>> => (ctx.inheritedColor = None /\ ctx.accumulatedTransform = {})

\* INSERT t7 (red) of block A was resolved first: its last child a4 follows the
\* nested INSERTs a2 and a3 (blue) and still saw red; the top-level LINE t2
\* resolved afterwards saw no inherited colour
C4_Witness ==
  /\ pc = "done"
  /\ Len(out) = 2
  /\ out[1].entity.handle = "t7"
  /\ \E i \in DOMAIN out[1].leaves :
       /\ out[1].leaves[i].entity.handle = "a4"
       /\ out[1].leaves[i].seenInherited = Some(16711680)
  /\ \E i \in DOMAIN out[1].leaves :
       /\ out[1].leaves[i].entity.handle = "c1"
       /\ out[1].leaves[i].seenInherited = Some(255)
  /\ out[2].entity.handle = "t2"
  /\ out[2].leaves[1].seenInherited = None

TopLevelThrows(db, entity) ==
  ~TopLevelHidden(db, entity) /\ CanDrawLeaf(entity) /\ DrawThrows(entity)

\* C5: a top-level entity whose resolution throws is counted once as an error
\* and every entity of the input is still visited.
C5_ErrorDoesNotAbort ==
  pc = "done" =>
    /\ visited = 1..Len(database.entities)
    /\ stats.errors =
         Cardinality({i \in 1..Len(database.entities) :
                        TopLevelThrows(database, database.entities[i])})

\* the first entity threw, the second was still rendered
C5_Witness ==
  /\ pc = "done"
  /\ Len(database.entities) = 2
  /\ TopLevelThrows(database, database.entities[1])
  /\ stats.errors = 1
  /\ stats.rendered = 1
  /\ Len(out) = 1 /\ out[1].index = 2

RECURSIVE ProductOfTransforms(_, _)
\* T(anc[1]) x T(anc[2]) x ... x T(anc[n]): outermost first, each once
ProductOfTransforms(db, anc) ==
  IF anc = <<>> THEN Identity
  ELSE multiplyMatrices(ProductOfTransforms(db, SubSeq(anc, 1, Len(anc) - 1)),
                        InsertTransform(db, anc[Len(anc)]))

\* C6: the world transform of an object in a block at nesting depth k is the
\* product of the insert transforms of its ancestor instances, outermost
\* first, each applied exactly once.
C6_NestedTransformIsProduct ==
  \A i \in DOMAIN out :
    \A leaf \in Range(out[i].leaves) :
      (\A a \in Range(leaf.anc) : ~IsArrayed(a))
        => leaf.matrix = ProductOfTransforms(database, leaf.anc)

(***************************************************************************)
(* Claims about colour resolution (checked under ColorSpec)                *)
(***************************************************************************)
TypesCalls == {i \in DOMAIN calls : calls[i].fn = "getEntityColor"}

WithoutColorIndex(entity) == [entity EXCEPT !.colorIndex = None]

OutOfRangeIndex(entity) ==
  /\ IsNumber(entity.colorIndex)
  /\ Abs(Val(entity.colorIndex)) \notin 0..256

\* C7: an entity true-color that is present and within [0, 0xFFFFFF], the
\* value 0x000000 included, is returned unchanged by getEntityColor, whatever
\* the colour index, raw colour, layer and inherited colour are.
C7_TrueColorWins ==
  \A i \in TypesCalls :
    (IsNumber(cEntity.trueColor) /\ isValidRgbColor(Val(cEntity.trueColor)))
      => calls[i].result = Val(cEntity.trueColor)

\* C8: getEntityColor is total, and a colour index whose absolute value is
\* neither in [0,255] nor 256 is ignored: the result is the one the entity
\* would get with no colour index at all (raw colour, then layer, then default).
C8_OutOfRangeIndexDegrades ==
  \A i \in TypesCalls :
    OutOfRangeIndex(cEntity)
      => calls[i].result = getEntityColor(WithoutColorIndex(cEntity), cCtx, White)

C8_Witness ==
  /\ TypesCalls # {}
  /\ cEntity.colorIndex = Some(300)
  /\ cEntity.trueColor = None
  /\ cEntity.color = Some(16711680)
  /\ cEntity.layer = "NOLAYER"
  /\ \E i \in TypesCalls : calls[i].result = 16711680

\* C9: two colour resolutions of the same (entity, layers, context) return
\* the same colour, whatever calls were made or settings changed in between.
C9_SameInputsSameColor ==
  \A i, j \in DOMAIN calls :
    calls[i].fn = calls[j].fn => calls[i].result = calls[j].result

\* C10: every colour returned by getEntityColor is a 24-bit RGB value, an
\* integer in [0, 0xFFFFFF].
C10_ResultIsRgb24 ==
  \A i \in TypesCalls : isValidRgbColor(calls[i].result)

\* C11: an entity with no true-color and no colour index but with a raw packed
\* colour resolves to that value with its red and blue bytes swapped (BGR read
\* as RGB), not to the packed value unchanged and not to a palette entry.
C11_RawColorIsBgrSwapped ==
  \A i \in TypesCalls :
    ( /\ cEntity.trueColor = None
      /\ cEntity.colorIndex = None
      /\ IsNumber(cEntity.color)
      /\ Val(cEntity.color) \in 1..MaxRgb )
      => calls[i].result = bgrToRgb(Val(cEntity.color))

\* a layer field that carries a value: a number other than zero
FieldSet(x) == IsNumber(x) /\ Val(x) # 0

\* the colour of a layer from its own fields: true colour, then colour index
\* 1..255, then raw colour, then white; white also for an unknown layer
LayerOwnColor(context, layerName) ==
  IF ~context.hasLayers \/ layerName \notin DOMAIN context.layers THEN White
  ELSE LET layer == context.layers[layerName] IN
    IF FieldSet(layer.trueColor) THEN Val(layer.trueColor)
    ELSE IF IsNumber(layer.colorIndex) /\ Val(layer.colorIndex) \in 1..255
      THEN getColorFromIndex(Val(layer.colorIndex))
    ELSE IF FieldSet(layer.color)
      THEN IF Val(layer.color) > 255 THEN Val(layer.color)
           ELSE getColorFromIndex(Val(layer.color))
    ELSE White

DefaultExtrusion(extrusionDirection) ==
  extrusionDirection \in {{}, {[x |-> 0, y |-> 0, z |-> 1]}}

TranslationToInsertionPoint(c) ==
  makeTranslation(c.insertionPoint.x * c.scaleFactor, c.insertionPoint.y * c.scaleFactor)

\* C13: with unit scale, zero rotation, default extrusion and the boolean
\* parameter left out, the insert transform is the pure translation to the
\* insertion point, whatever the base point of the block is: no base-point
\* offset is composed unless the caller enables it.
C13_NoBasePointOffsetByDefault ==
  \A i \in DOMAIN tCalls :
    LET c == tCalls[i] IN
      ( /\ c.scale = [x |-> 1, y |-> 1]
        /\ c.rotation = 0
        /\ DefaultExtrusion(c.extrusionDirection)
        /\ c.applyBasePointOffset = {} )
        => c.result = TranslationToInsertionPoint(c)

ArbitraryAxisRotation(extrusionDirection) ==
  IF DefaultExtrusion(extrusionDirection) THEN Identity
  ELSE getOcsToWcsMatrix(CHOOSE q \in extrusionDirection : TRUE)

\* C14: the insert transform applies the non-uniform scale first, then the
\* rotation about the local Z axis, then the arbitrary-axis rotation, and the
\* translation to the insertion point last: it is the matrix product
\* translation x arbitrary-axis rotation x rotation Z x scale (the base-point
\* offset switched off).
C14_ScaleRotateOcsTranslate ==
  \A i \in DOMAIN tCalls :
    LET c == tCalls[i] IN
      c.applyBasePointOffset = {FALSE}
        => c.result =
             multiplyMatrices(TranslationToInsertionPoint(c),
               multiplyMatrices(ArbitraryAxisRotation(c.extrusionDirection),
                 multiplyMatrices(makeRotationZ(c.rotation),
                                  makeScale(c.scale.x, c.scale.y))))

(***************************************************************************)
(* Claims about dispatch and the emitted objects, checked under Spec       *)
(***************************************************************************)
\* top-level positions whose loop body is over
Processed == 1..(idx - 1)

EntriesOf(i) == {j \in DOMAIN out : out[j].index = i}

NoDefinition(db, name) ==
  \A n \in DOMAIN db.blocks : n # name /\ Lower(n) # Lower(name)

MissingInsert(db, entity) == entity.type = "INSERT" /\ NoDefinition(db, entity.name)

HasArray(entity) == entity.rowCount > 1 \/ entity.columnCount > 1

C16_OutputInInputOrder ==
  \A j1, j2 \in DOMAIN out : j1 < j2 => out[j1].index < out[j2].index

\* a skipped entity between two drawn ones does not disturb the order
C16_Witness ==
  /\ pc = "done"
  /\ Len(out) = 2
  /\ out[1].index = 1 /\ out[2].index = 2
  /\ out[1].entity.type = "INSERT" /\ out[2].entity.type = "LINE"

EntityTypeTags ==
  UNION {Drawers[i].types : i \in DOMAIN Drawers} \cup {"XRECORD", "UNKNOWN"}

Accepting(drawers, entity) == {i \in DOMAIN drawers : canDraw(drawers[i], entity)}

Reverse(seq) == [i \in 1..Len(seq) |-> seq[Len(seq) + 1 - i]]

\* C17: the canDraw predicates of the registered drawers partition the
\* entities: at most one drawer accepts any type tag, and the drawer that
\* takes the entity being dispatched is the same when the drawers are tried
\* in the opposite order.
C17_ResolversPartition ==
  /\ \A t \in EntityTypeTags : Cardinality(Accepting(Drawers, [type |-> t])) <= 1
  /\ SiteReady =>
       /\ Cardinality(Accepting(Drawers, SiteEntity)) <= 1
       /\ FirstAccepting(Drawers, SiteEntity) = FirstAccepting(Reverse(Drawers), SiteEntity)

\* a polyline inside a block is about to be dispatched by createEntityFromDrawers
C17_Witness ==
  /\ SiteReady
  /\ stack # <<>>
  /\ SiteEntity.type = "POLYLINE3D"
  /\ Cardinality(Accepting(Drawers, SiteEntity)) = 1
  /\ FirstAccepting(Reverse(Drawers), SiteEntity) = "PolylineDrawer"

Unmatched(entity) == \A i \in DOMAIN Drawers : entity.type \notin Drawers[i].types

\* C18: an entity whose type tag no registered drawer accepts produces no
\* object, is counted as skipped (skipped counts exactly the hidden and the
\* unmatched entities) and never as an error, and the later entities are
\* still visited.
C18_UnmatchedIsSkipped ==
  /\ \A i \in Processed :
       Unmatched(database.entities[i]) => EntriesOf(i) = {}
  /\ \A leaf \in AllLeaves : ~Unmatched(leaf.entity)
  /\ stats.skipped =
       Cardinality({i \in Processed :
                      \/ TopLevelHidden(database, database.entities[i])
                      \/ Unmatched(database.entities[i])})
  /\ stats.errors =
       Cardinality({i \in Processed : ~Unmatched(database.entities[i])
                                      /\ TopLevelThrows(database, database.entities[i])})
  /\ pc = "done" => visited = 1..Len(database.entities)

\* the XRECORD t6 was skipped, the LINE t14 after it was drawn
C18_Witness ==
  /\ pc = "done"
  /\ Len(database.entities) = 2
  /\ database.entities[1].handle = "t6"
  /\ database.entities[2].handle = "t14"
  /\ stats = [rendered |-> 1, skipped |-> 1, errors |-> 0]
  /\ Len(out) = 1 /\ out[1].index = 2

\* C19: an emitted object keeps the colour that was resolved for its entity:
\* after it has been added to its layer, and when rendering is over, its
\* colour is still the one its drawer gave it.
C19_RecordNotMutated ==
  \A i \in DOMAIN out :
    \A k \in DOMAIN out[i].leaves :
      out[i].leaves[k].color = out[i].leaves[k].resolved

(***************************************************************************)
(* Claim about the monochrome switch, checked under ViewportSpec           *)
(***************************************************************************)
\* C20: monochrome mode belongs to one resolution: a colour resolved by the
\* drawers of a viewport that did not switch monochrome on is the colour of
\* the entity, whatever was switched on or changed for another viewport.
C20_MonochromeIsPerResolution ==
  \A i \in DOMAIN vCalls :
    ~vCalls[i].requested => vCalls[i].result = getEntityColor(cEntity, cCtx, White)

(***************************************************************************)
(* Claims about layers, arrays and counters, checked under Spec            *)
(***************************************************************************)
LayerFrozenOrOff(db, layerName) ==
  /\ layerName \in DOMAIN db.layers
  /\ (db.layers[layerName].frozen \/ db.layers[layerName].off)

\* C21: no object is ever made for an entity whose layer is frozen or off,
\* whether the entity is at top level or a child reached through an INSERT.
C21_NoObjectOnFrozenLayer ==
  /\ \A i \in DOMAIN out : ~LayerFrozenOrOff(database, out[i].entity.layer)
  /\ \A leaf \in AllLeaves : ~LayerFrozenOrOff(database, leaf.entity.layer)


(***************************************************************************)
(* Solid fills: src/src/three/NestedPolygonProcessor.ts, called by the     *)
(* HatchDrawer of src/unnamed/part_005.  Coordinates are integers, so the  *)
(* epsilons of the source (1e-6, 1e-4) separate exactly the equal values   *)
(* from the different ones and every comparison below is exact.            *)
(***************************************************************************)
MaxLoops == 3

Pt(x, y) == [x |-> x, y |-> y]

\* counter-clockwise, area 144
OuterSquare == <<Pt(0, 0), Pt(12, 0), Pt(12, 12), Pt(0, 12)>>

\* clockwise, strictly inside OuterSquare, area -64
HoleSquare == <<Pt(2, 2), Pt(2, 10), Pt(10, 10), Pt(10, 2)>>

\* counter-clockwise, strictly inside HoleSquare, area 16
IslandSquare == <<Pt(4, 4), Pt(8, 4), Pt(8, 8), Pt(4, 8)>>

\* strictly inside IslandSquare, with a repeated vertex and an explicit
\* closing vertex, area 4 once cleaned
ClosedSquare == <<Pt(5, 5), Pt(7, 5), Pt(7, 5), Pt(7, 7), Pt(5, 7), Pt(5, 5)>>

\* away from all the others, the area of IslandSquare
FarSquare == <<Pt(20, 0), Pt(24, 0), Pt(24, 4), Pt(20, 4)>>

\* area 72; its vertices lie on the sides of OuterSquare, and the corners of
\* HoleSquare lie outside it although its bounding box holds HoleSquare
Diamond == <<Pt(6, 0), Pt(12, 6), Pt(6, 12), Pt(0, 6)>>

LoopInputs == {OuterSquare, HoleSquare, IslandSquare, ClosedSquare, FarSquare, Diamond}

HatchStyleInputs == {0, 1, 2}

Min(S) == CHOOSE m \in S : \A n \in S : m <= n

Max(S) == CHOOSE m \in S : \A n \in S : m >= n

\* dx * dx + dy * dy < epsilon * epsilon, on integers
TooClose(p, q) == p.x = q.x /\ p.y = q.y

RECURSIVE DropRepeats(_, _)
DropRepeats(points, cleaned) ==
  IF points = <<>> THEN cleaned
  ELSE DropRepeats(Tail(points),
         IF cleaned # <<>> /\ TooClose(Head(points), cleaned[Len(cleaned)])
         THEN cleaned
         ELSE Append(cleaned, Head(points)))

cleanPolygonPoints(points) ==
  IF Len(points) < 3 THEN points
  ELSE LET cleaned == DropRepeats(points, <<>>)
       IN IF Len(cleaned) > 1 /\ TooClose(cleaned[1], cleaned[Len(cleaned)])
          THEN SubSeq(cleaned, 1, Len(cleaned) - 1)
          ELSE cleaned

RECURSIVE ShoelaceSum(_, _)
ShoelaceSum(points, i) ==
  IF i > Len(points) THEN 0
  ELSE LET j == (i % Len(points)) + 1
       IN points[i].x * points[j].y - points[j].x * points[i].y
          + ShoelaceSum(points, i + 1)

\* area / 2: every loop of LoopInputs has an even sum, so the division is exact
calculateSignedArea(points) ==
  LET sum == ShoelaceSum(points, 1)
  IN IF sum >= 0 THEN sum \div 2 ELSE -((-sum) \div 2)

calculateBoundingBox(points) ==
  [minX |-> Min({points[i].x : i \in DOMAIN points}),
   minY |-> Min({points[i].y : i \in DOMAIN points}),
   maxX |-> Max({points[i].x : i \in DOMAIN points}),
   maxY |-> Max({points[i].y : i \in DOMAIN points})]

\* the record built for every loop; parentIndex 0 stands for the source's -1,
\* the indices being 1-based here
NewNestedPolygon(points) ==
  LET cleanedPoints == cleanPolygonPoints(points)
  IN [points |-> cleanedPoints,
      signedArea |-> calculateSignedArea(cleanedPoints),
      bbox |-> calculateBoundingBox(cleanedPoints),
      nestLevel |-> 0,
      parentIndex |-> 0,
      childIndices |-> <<>>,
      shouldFill |-> TRUE]

\* one edge of the ray casting: x < (xj - xi) * (y - yi) / (yj - yi) + xi,
\* multiplied through by yj - yi, which the first conjunct makes nonzero
RayCrosses(point, pi, pj) ==
  /\ (pi.y > point.y) # (pj.y > point.y)
  /\ IF pj.y - pi.y > 0
     THEN (point.x - pi.x) * (pj.y - pi.y) < (pj.x - pi.x) * (point.y - pi.y)
     ELSE (point.x - pi.x) * (pj.y - pi.y) > (pj.x - pi.x) * (point.y - pi.y)

isPointInPolygon(point, polygon) ==
  LET n == Len(polygon)
      crossed == {i \in 1..n : RayCrosses(point, polygon[i],
                                          polygon[IF i = 1 THEN n ELSE i - 1])}
  IN Cardinality(crossed) % 2 = 1

isPolygonInsidePolygon(inner, outer) ==
  IF \/ inner.bbox.minX < outer.bbox.minX
     \/ inner.bbox.maxX > outer.bbox.maxX
     \/ inner.bbox.minY < outer.bbox.minY
     \/ inner.bbox.maxY > outer.bbox.maxY
  THEN FALSE
  ELSE LET len == Len(inner.points)
           sampleCount == IF len < 5 THEN len ELSE 5
           step == Max({1, len \div sampleCount})
           inside == {i \in 0..(sampleCount - 1) :
                        isPointInPolygon(inner.points[((i * step) % len) + 1],
                                         outer.points)}
       IN 2 * Cardinality(inside) > sampleCount

\* Array.prototype.sort is stable: loops of the same |signedArea| keep their
\* order of arrival
SortsBefore(polygons, a, b) ==
  \/ Abs(polygons[a].signedArea) > Abs(polygons[b].signedArea)
  \/ Abs(polygons[a].signedArea) = Abs(polygons[b].signedArea) /\ a < b

sortedIndices(polygons) ==
  [p \in DOMAIN polygons |->
     CHOOSE k \in DOMAIN polygons :
       Cardinality({m \in DOMAIN polygons : SortsBefore(polygons, m, k)}) = p - 1]

\* the candidate kept by the inner loop of buildNestingTree for the loop at
\* position i of the order: the largest one here
directParent_Largest(polygons, sorted, i) ==
  LET current == polygons[sorted[i]]
      containing == {j \in 1..(i - 1) :
                       isPolygonInsidePolygon(current, polygons[sorted[j]])}
      best == {j \in containing : \A m \in containing :
                 Abs(polygons[sorted[j]].signedArea) >= Abs(polygons[sorted[m]].signedArea)}
  IN IF containing = {} THEN 0 ELSE sorted[Min(best)]

\* the candidate kept by the inner loop of buildNestingTree for the loop at
\* position i of the order: candidateArea < minParentArea keeps the first of
\* the smallest ones; 0 when no earlier loop contains it
directParent(polygons, sorted, i) ==
  LET current == polygons[sorted[i]]
      containing == {j \in 1..(i - 1) :
                       isPolygonInsidePolygon(current, polygons[sorted[j]])}
      best == {j \in containing : \A m \in containing :
                 Abs(polygons[sorted[j]].signedArea) <= Abs(polygons[sorted[m]].signedArea)}
  IN IF containing = {} THEN 0 ELSE sorted[Min(best)]

buildNestingTree(polygons, sorted) ==
  LET position(k) == CHOOSE i \in DOMAIN sorted : sorted[i] = k
      parentOf == [k \in DOMAIN polygons |-> directParent(polygons, sorted, position(k))]
  IN [k \in DOMAIN polygons |->
        [polygons[k] EXCEPT
           !.parentIndex = parentOf[k],
           !.childIndices = SelectSeq(sorted, LAMBDA c : parentOf[c] = k)]]

\* setLevel(polygons[childIdx], level + 1): a child stays on the level of its parent
ChildLevel_Same(level) == level

\* setLevel(polygons[childIdx], level + 1)
ChildLevel(level) == level + 1

RECURSIVE setLevel(_, _, _)
RECURSIVE setLevelOfChildren(_, _, _)
setLevel(polygons, k, level) ==
  setLevelOfChildren(
    [polygons EXCEPT ![k].nestLevel = level, ![k].shouldFill = (level % 2 = 0)],
    polygons[k].childIndices, ChildLevel(level))

setLevelOfChildren(polygons, children, level) ==
  IF children = <<>> THEN polygons
  ELSE setLevelOfChildren(setLevel(polygons, Head(children), level),
                          Tail(children), level)

calculateNestLevels(polygons) ==
  setLevelOfChildren(polygons,
    SelectSeq([k \in DOMAIN polygons |-> k], LAMBDA k : polygons[k].parentIndex = 0), 0)

processPolygons(polygons) ==
  IF Len(polygons) = 0 THEN <<>>
  ELSE LET polygonInfos == [k \in DOMAIN polygons |-> NewNestedPolygon(polygons[k])]
       IN calculateNestLevels(buildNestingTree(polygonInfos, sortedIndices(polygonInfos)))

\* createSolidFillWithHoles, step 3: hatchStyle 1 (Outer) and 2 (Ignore)
ApplyHatchStyleTo(polygons, style) ==
  [k \in DOMAIN polygons |->
     IF \/ style = 1 /\ polygons[k].nestLevel > 1
        \/ style = 2 /\ polygons[k].nestLevel > 0
     THEN [polygons[k] EXCEPT !.shouldFill = FALSE]
     ELSE polygons[k]]

RECURSIVE Dedupe(_, _)
Dedupe(points, result) ==
  IF points = <<>> THEN result
  ELSE Dedupe(Tail(points),
         IF \E i \in DOMAIN result : TooClose(result[i], Head(points))
         THEN result
         ELSE Append(result, Head(points)))

preparePointsForPoly2tri(points) ==
  IF Len(points) < 3 THEN <<>> ELSE Dedupe(points, <<>>)

\* the holes added to the sweep context of loop k: every descendant here
HolesOf_AllDescendants(polygons, k) ==
  SelectSeq([c \in DOMAIN polygons |-> c],
    LAMBDA c : \E up \in 1..Len(polygons) :
      \E path \in [1..(up + 1) -> DOMAIN polygons] :
        /\ path[1] = c
        /\ path[up + 1] = k
        /\ \A n \in 1..up : polygons[path[n]].parentIndex = path[n + 1])

\* the holes added to the sweep context of loop k
HolesOf(polygons, k) ==
  SelectSeq(polygons[k].childIndices,
    LAMBDA c : /\ ~polygons[c].shouldFill
               /\ Len(preparePointsForPoly2tri(polygons[c].points)) >= 3)

\* the holes pushed on the THREE.Shape of loop k by the fallback: none here
ShapeHolesOf_None(polygons, k) == <<>>

\* the holes pushed on the THREE.Shape of loop k by the fallback
ShapeHolesOf(polygons, k) ==
  SelectSeq(polygons[k].childIndices, LAMBDA c : ~polygons[c].shouldFill)

\* the outer boundary, made counter-clockwise
Reversed(points) == [i \in DOMAIN points |-> points[Len(points) + 1 - i]]

OuterPointsOf(polygon) ==
  IF polygon.signedArea < 0 THEN Reversed(polygon.points) ELSE polygon.points

\* what addPolygonWithShapeGeometry adds for loop k; shapeThrows: building the
\* ShapeGeometry throws, which its own catch swallows
addPolygonWithShapeGeometry(polygons, k, shapeThrows) ==
  IF shapeThrows \/ \E c \in Range(ShapeHolesOf(polygons, k)) : polygons[c].points = <<>>
  THEN [polygon |-> k, poly2triFailed |-> TRUE, by |-> "none",
        outer |-> <<>>, holes |-> <<>>]
  ELSE [polygon |-> k, poly2triFailed |-> TRUE, by |-> "ShapeGeometry",
        outer |-> OuterPointsOf(polygons[k]), holes |-> ShapeHolesOf(polygons, k)]

\* the body of the loop of createFilledMesh for a loop that is not skipped
FillPolygon(polygons, k, poly2triThrows, shapeThrows) ==
  IF poly2triThrows
  THEN addPolygonWithShapeGeometry(polygons, k, shapeThrows)
  ELSE [polygon |-> k, poly2triFailed |-> FALSE, by |-> "poly2tri",
        outer |-> preparePointsForPoly2tri(OuterPointsOf(polygons[k])),
        holes |-> HolesOf(polygons, k)]

\* the loops createFilledMesh does not skip
Fillable(polygons, k) ==
  /\ polygons[k].shouldFill
  /\ Len(polygons[k].points) >= 3
  /\ Len(preparePointsForPoly2tri(OuterPointsOf(polygons[k]))) >= 3

\* createFilledMesh, as the list of what was triangulated for each loop;
\* poly2triThrows and shapeThrows are the loops on which each triangulator throws
createFilledMesh(polygons, poly2triThrows, shapeThrows) ==
  LET fillable == SelectSeq([k \in DOMAIN polygons |-> k],
                            LAMBDA k : Fillable(polygons, k))
  IN [n \in DOMAIN fillable |->
        FillPolygon(polygons, fillable[n],
                    fillable[n] \in poly2triThrows, fillable[n] \in shapeThrows)]

\* a solid HATCH arrives with its boundary paths
PolygonInit ==
  /\ monochromeModeEnabled = FALSE
  /\ monochromeColor = 0
  /\ cEntity = [trueColor |-> None, colorIndex |-> None, color |-> None, layer |-> "0"]
  /\ cCtx = [hasLayers |-> FALSE, layers |-> EmptyLayers, inheritedColor |-> None]
  /\ calls = <<>>
  /\ RenderIdle
  /\ tCalls = <<>>
  /\ ViewportIdle
  /\ pLoops \in SeqUpTo(LoopInputs, MaxLoops)
  /\ hatchStyle \in HatchStyleInputs
  /\ pPc = "paths"
  /\ nestedPolygons = <<>>
  /\ mesh = <<>>
  /\ DrawerIdle
  /\ LoadIdle

\* createSolidFillWithHoles, step 2: processor.processPolygons(allPathPoints)
ProcessPolygons ==
  /\ pPc = "paths"
  /\ nestedPolygons' = processPolygons(pLoops)
  /\ pPc' = "processed"
  /\ UNCHANGED <<colorVars, monoVars, renderVars, transformVars, viewportVars,
                 drawerVars, loadVars, pLoops, hatchStyle, mesh>>

\* createSolidFillWithHoles, step 3
ApplyHatchStyle ==
  /\ pPc = "processed"
  /\ nestedPolygons' = ApplyHatchStyleTo(nestedPolygons, hatchStyle)
  /\ pPc' = "styled"
  /\ UNCHANGED <<colorVars, monoVars, renderVars, transformVars, viewportVars,
                 drawerVars, loadVars, pLoops, hatchStyle, mesh>>

\* createSolidFillWithHoles, step 4: processor.createFilledMesh(nestedPolygons, color)
CreateFilledMesh ==
  /\ pPc = "styled"
  /\ \E poly2triThrows \in SUBSET DOMAIN nestedPolygons,
        shapeThrows \in SUBSET DOMAIN nestedPolygons :
       mesh' = createFilledMesh(nestedPolygons, poly2triThrows, shapeThrows)
  /\ pPc' = "meshed"
  /\ UNCHANGED <<colorVars, monoVars, renderVars, transformVars, viewportVars,
                 drawerVars, loadVars, pLoops, hatchStyle, nestedPolygons>>

PolygonNext ==
  \/ ProcessPolygons
  \/ ApplyHatchStyle
  \/ CreateFilledMesh

PolygonSpec == PolygonInit /\ [][PolygonNext]_vars


(***************************************************************************)
(* Claims about solid fills, checked under PolygonSpec                     *)
(***************************************************************************)
\* the number of loops met on the way from loop k up to its root
RECURSIVE AncestorCount(_, _)
AncestorCount(polygons, k) ==
  IF polygons[k].parentIndex = 0 THEN 0
  ELSE 1 + AncestorCount(polygons, polygons[k].parentIndex)

\* the three squares of the containment scenario, in any order of arrival
ThreeSquares ==
  /\ Len(pLoops) = 3
  /\ Range(pLoops) = {OuterSquare, HoleSquare, IslandSquare}

PositionOf(loop) == CHOOSE k \in DOMAIN pLoops : pLoops[k] = loop

\* C22: after the nesting forest is built, the nestLevel of every loop is the
\* number of its ancestors and its shouldFill is true exactly when that
\* level is even; an outer square, a hole strictly inside it and an island
\* strictly inside the hole get the levels 0, 1, 2 and the fills true, false,
\* true.
C22_NestLevelIsDepthAndParity ==
  pPc = "processed" =>
    /\ \A k \in DOMAIN nestedPolygons :
         /\ nestedPolygons[k].nestLevel = AncestorCount(nestedPolygons, k)
         /\ nestedPolygons[k].shouldFill <=> (nestedPolygons[k].nestLevel % 2 = 0)
    /\ ThreeSquares =>
         /\ nestedPolygons[PositionOf(OuterSquare)].nestLevel = 0
         /\ nestedPolygons[PositionOf(HoleSquare)].nestLevel = 1
         /\ nestedPolygons[PositionOf(IslandSquare)].nestLevel = 2
         /\ nestedPolygons[PositionOf(OuterSquare)].shouldFill
         /\ ~nestedPolygons[PositionOf(HoleSquare)].shouldFill
         /\ nestedPolygons[PositionOf(IslandSquare)].shouldFill

\* the three squares have been analysed, the island arriving first
C22_Witness ==
  /\ pPc = "processed"
  /\ ThreeSquares
  /\ pLoops[1] = IslandSquare
  /\ nestedPolygons[1].nestLevel = 2
  /\ nestedPolygons[1].shouldFill


\* the loops placed before loop k in the descending-area order that contain it
EarlierContainers(k) ==
  {m \in DOMAIN nestedPolygons :
     /\ SortsBefore(nestedPolygons, m, k)
     /\ isPolygonInsidePolygon(nestedPolygons[k], nestedPolygons[m])}

\* C23: the parent of every loop is the loop of the smallest absolute area
\* among the loops placed earlier in the descending-area order that contain
\* it, and a loop is a root exactly when no earlier loop contains it.
C23_ParentIsSmallestEarlierContainer ==
  pPc = "processed" =>
    \A k \in DOMAIN nestedPolygons :
      LET parent == nestedPolygons[k].parentIndex
      IN /\ (parent = 0) <=> (EarlierContainers(k) = {})
         /\ parent # 0 =>
              /\ parent \in EarlierContainers(k)
              /\ \A m \in EarlierContainers(k) :
                   Abs(nestedPolygons[parent].signedArea) <= Abs(nestedPolygons[m].signedArea)

\* a loop held by two earlier loops of different areas has the smaller one as
\* its parent, next to a loop that no earlier loop holds
C23_Witness ==
  /\ pPc = "processed"
  /\ \E k, m \in DOMAIN nestedPolygons :
       /\ Cardinality(EarlierContainers(k)) = 2
       /\ m \in EarlierContainers(k)
       /\ m # nestedPolygons[k].parentIndex
       /\ Abs(nestedPolygons[m].signedArea)
            > Abs(nestedPolygons[nestedPolygons[k].parentIndex].signedArea)
       /\ nestedPolygons[m].parentIndex = 0


\* the immediate children of loop k in the forest that are not filled
NonFillingChildren(k) ==
  {c \in DOMAIN nestedPolygons :
     nestedPolygons[c].parentIndex = k /\ ~nestedPolygons[c].shouldFill}

\* C24: the holes used to triangulate a filled loop are exactly its immediate
\* children in the forest that have shouldFill = false: no grandchild or
\* deeper descendant and no filling child is one of its holes.
C24_HolesAreImmediateNonFillingChildren ==
  pPc = "meshed" =>
    \A n \in DOMAIN mesh :
      mesh[n].by # "none" =>
        /\ Range(mesh[n].holes) = NonFillingChildren(mesh[n].polygon)
        /\ \A c \in Range(mesh[n].holes) :
             /\ nestedPolygons[c].parentIndex = mesh[n].polygon
             /\ ~nestedPolygons[c].shouldFill

\* a loop with a hole and an island inside the hole was triangulated against
\* the hole alone
C24_Witness ==
  /\ pPc = "meshed"
  /\ \E n \in DOMAIN mesh : \E c, g \in DOMAIN nestedPolygons :
       /\ mesh[n].by = "poly2tri"
       /\ Range(mesh[n].holes) = {c}
       /\ nestedPolygons[c].parentIndex = mesh[n].polygon
       /\ nestedPolygons[g].parentIndex = c
       /\ nestedPolygons[g].shouldFill


\* the loops createFilledMesh has to fill
FillableLoops == {k \in DOMAIN nestedPolygons : Fillable(nestedPolygons, k)}

\* every loop to fill has its entry, in the order of the loops, whatever
\* happened to the loops before it
EveryLoopProcessed ==
  /\ {mesh[n].polygon : n \in DOMAIN mesh} = FillableLoops
  /\ \A n, m \in DOMAIN mesh : n < m => mesh[n].polygon < mesh[m].polygon

\* C25 as stated: when triangulating a filled loop with its holes fails, the
\* loop is triangulated again from its outer boundary alone, without holes,
\* the remaining loops are still processed and the fill step completes.
C25_FallbackWithoutHoles ==
  pPc = "meshed" =>
    /\ EveryLoopProcessed
    /\ \A n \in DOMAIN mesh :
         mesh[n].poly2triFailed => mesh[n].holes = <<>>

\* C25 amended: when triangulating a filled loop with its holes fails, the
\* loop is handed to the fallback triangulation with the same outer boundary
\* and the same immediate non-filling children as holes, a loop on which the
\* fallback fails too is the only one dropped, the remaining loops are still
\* processed and the fill step completes.
C25_FallbackKeepsHoles ==
  pPc = "meshed" =>
    /\ EveryLoopProcessed
    /\ \A n \in DOMAIN mesh :
         mesh[n].poly2triFailed =>
           \/ mesh[n].by = "none"
           \/ /\ mesh[n].by = "ShapeGeometry"
              /\ mesh[n].outer = OuterPointsOf(nestedPolygons[mesh[n].polygon])
              /\ Range(mesh[n].holes) = NonFillingChildren(mesh[n].polygon)

\* the triangulation of a loop with a hole failed, the fallback took the loop
\* with its hole, and a later loop was triangulated as usual
C25_Witness ==
  /\ pPc = "meshed"
  /\ \E n, m \in DOMAIN mesh :
       /\ n < m
       /\ mesh[n].poly2triFailed
       /\ mesh[n].by = "ShapeGeometry"
       /\ mesh[n].holes # <<>>
       /\ mesh[m].by = "poly2tri"


(***************************************************************************)
(* Claims about arrays, dimensions, counters and reloads, under Spec       *)
(***************************************************************************)
\* the leaves of output entry j that come from child x of the block of the
\* top-level INSERT itself, in the order of the entry
DirectLeaves(j, x) ==
  SelectSeq(out[j].leaves, LAMBDA leaf : leaf.entity = x /\ Len(leaf.anc) = 1)

DirectChildren(j) ==
  {leaf.entity : leaf \in {l \in Range(out[j].leaves) : Len(l.anc) = 1}}

\* the base instance transform followed by a translation
FollowedByTranslation(m, dx, dy) == [m EXCEPT !.tx = @ + dx, !.ty = @ + dy]

\* the spacing of the columns and of the rows, scaled by the instance's own
\* axis scale (and by the drawing scale of the viewport)
ColSpacing(e) == e.columnSpacing * ScaleFactor * OrOne(e.xScale)

RowSpacing(e) == e.rowSpacing * ScaleFactor * OrOne(e.yScale)

\* entry j holds rows x cols instances of every child it shows, the instance
\* at (row, col) being the base one moved by (col*colSpacing, row*rowSpacing)
GridOfInstances(j, rows, cols) ==
  LET e == out[j].entity
  IN \A x \in DirectChildren(j) :
       LET instances == DirectLeaves(j, x)
       IN /\ Len(instances) = rows * cols
          /\ \A row \in 0..(rows - 1), col \in 0..(cols - 1) :
               instances[row * cols + col + 1].matrix =
                 FollowedByTranslation(InsertTransform(database, e),
                                       col * ColSpacing(e), row * RowSpacing(e))

TopLevelInserts == {j \in DOMAIN out : out[j].entity.type = "INSERT"}

\* C26 as stated: an INSERT with rowCount r and colCount c produces exactly
\* r x c instances, the one at (row, col) being the base instance followed by
\* the translation (col*colSpacing, row*rowSpacing, 0), the one at (0,0)
\* having the base transform unmodified.
C26_ArrayHasRowsTimesColumns ==
  \A j \in TopLevelInserts :
    GridOfInstances(j, OrOne(out[j].entity.rowCount), OrOne(out[j].entity.columnCount))

\* C26 amended: the grid is produced when a count exceeds 1 and a spacing is
\* not zero; an INSERT whose spacings are both zero produces the base
\* instance alone, whatever its counts.
C26_ArrayNeedsSpacing ==
  \A j \in TopLevelInserts :
    IF IsArrayed(out[j].entity)
    THEN GridOfInstances(j, OrOne(out[j].entity.rowCount), OrOne(out[j].entity.columnCount))
    ELSE GridOfInstances(j, 1, 1)

\* a scaled INSERT with two columns shows a child twice, the second time
\* moved along x by the scaled spacing
C26_Witness ==
  \E j \in TopLevelInserts : \E x \in DirectChildren(j) :
    /\ out[j].entity.columnCount = 2
    /\ out[j].entity.xScale = 2
    /\ Len(DirectLeaves(j, x)) = 2
    /\ DirectLeaves(j, x)[2].matrix.tx = DirectLeaves(j, x)[1].matrix.tx + ColSpacing(out[j].entity)
    /\ ColSpacing(out[j].entity) > 0


(***************************************************************************)
(* Dimensions: src/unnamed/part_015 (DimensionDrawer), built by render in  *)
(* src/unnamed/part_004                                                    *)
(***************************************************************************)
MaxDimensionDraws == 1

DimensionEntities ==
  { [trueColor |-> tc, colorIndex |-> ci, color |-> None, layer |-> "0",
     type |-> "DIMENSION", name |-> n, extrusionDirection |-> ex] :
      tc \in {None, Some(1193046)}, ci \in {Some(0), Some(1), Some(256)},
      n \in {"D", "D0", "DX"}, ex \in ExtrusionInputs }

DimensionChild(handle, type, colorIndex) ==
  [handle |-> handle, type |-> type, trueColor |-> None, colorIndex |-> colorIndex,
   color |-> None, layer |-> "0"]

\* the anonymous blocks of the dimensions: D with geometry, D0 empty; no
\* block is called DX
DimensionBlocks ==
  [n \in {"D", "D0"} |->
     IF n = "D"
     THEN << DimensionChild("d1", "LINE", Some(0)),
             DimensionChild("d2", "LINE", Some(1)),
             DimensionChild("d3", "XRECORD", Some(0)),
             DimensionChild("d4", "LINE", Some(256)) >>
     ELSE <<>>]

\* render, part_004 line 280: the entityCreator handed to the DimensionDrawer
\* is (entity) => this.createEntityFromDrawers(entity), so the second
\* argument of createEntityFromDrawers is undefined whatever the drawer passes
DimensionEntityCreator(inheritedColor) == None

\* DimensionDrawer.createEntityObject over createEntityFromDrawers: the object
\* of a block child, none when no drawer takes it
DimensionChildObject(blockEntity, inheritedColor, context) ==
  IF CanDrawLeaf(blockEntity)
  THEN << [entity |-> blockEntity,
           color |-> BaseGetEntityColor(
                       blockEntity,
                       WrapperEnter(context, DimensionEntityCreator(inheritedColor)),
                       White, monochromeModeEnabled, monochromeColor)] >>
  ELSE <<>>

RECURSIVE DimensionGroup(_, _, _)
DimensionGroup(blockEntities, inheritedColor, context) ==
  IF blockEntities = <<>> THEN <<>>
  ELSE DimensionChildObject(Head(blockEntities), inheritedColor, context)
       \o DimensionGroup(Tail(blockEntities), inheritedColor, context)

\* DimensionDrawer.draw
DimensionDraw(entity, context, blocks) ==
  IF entity.name \in DOMAIN blocks /\ Len(blocks[entity.name]) > 0
  THEN LET inheritedColor == getEntityColor(entity, context, White)
       IN [by |-> "block",
           inheritedColor |-> Some(inheritedColor),
           group |-> DimensionGroup(blocks[entity.name], Some(inheritedColor), context),
           mirrored |-> \E d \in entity.extrusionDirection : d.z = 0 - 1]
  ELSE [by |-> "fallback",
        inheritedColor |-> None,
        group |-> << [entity |-> entity,
                      color |-> BaseGetEntityColor(entity, context, White,
                                  monochromeModeEnabled, monochromeColor)] >>,
        mirrored |-> FALSE]

DimensionInit ==
  /\ monochromeModeEnabled = FALSE
  /\ monochromeColor = 0
  /\ cEntity = [trueColor |-> None, colorIndex |-> None, color |-> None, layer |-> "0"]
  /\ cCtx = [hasLayers |-> FALSE, layers |-> EmptyLayers, inheritedColor |-> None]
  /\ calls = <<>>
  /\ RenderIdle
  /\ tCalls = <<>>
  /\ ViewportIdle
  /\ PolygonIdle
  /\ dimDraws = <<>>
  /\ bulgeCalls = <<>>
  /\ LoadIdle

\* a DIMENSION reaches its drawer: from render, with no inherited colour in
\* the context, or as a child of a block, with the colour of the INSERT
CallDimensionDraw ==
  /\ Len(dimDraws) < MaxDimensionDraws
  /\ \E entity \in DimensionEntities, context \in ColorContexts :
       dimDraws' = Append(dimDraws,
         [entity |-> entity, context |-> context,
          result |-> DimensionDraw(entity, context, DimensionBlocks)])
  /\ UNCHANGED <<colorVars, monoVars, renderVars, transformVars, viewportVars, polygonVars,
                 bulgeCalls, loadVars>>

DimensionNext == CallDimensionDraw

DimensionSpec == DimensionInit /\ [][DimensionNext]_vars

\* C27: the children with colour index 0 of the block associated with a
\* DIMENSION resolve to the resolved colour of that DIMENSION, which is the
\* containing instance for BYBLOCK inheritance just as an INSERT is.
C27_DimensionIsByBlockParent ==
  \A n \in DOMAIN dimDraws :
    dimDraws[n].result.by = "block" =>
      \A object \in Range(dimDraws[n].result.group) :
        object.entity.colorIndex = Some(0) =>
          object.color = getEntityColor(dimDraws[n].entity, dimDraws[n].context, White)


(***************************************************************************)
(* Bulge arcs: interpolateBulge of src/src/three/PolylineDrawer.ts and of  *)
(* the HatchDrawer of src/unnamed/part_005.  A bulge is given in           *)
(* thousandths and an angle in microradians; Math.atan is the table of its *)
(* values on the bulges used, none of which brings theta * 10 or           *)
(* theta * 20 within a rounding error of an integer.                       *)
(***************************************************************************)
MaxBulgeCalls == 1

BulgeMagnitudes == {0, 100, 414, 500, 1000, 2000, 10000}

BulgeInputs == BulgeMagnitudes \cup {0 - b : b \in BulgeMagnitudes}

VertexInputs == {Pt(0, 0), Pt(10, 0), Pt(3, 4)}

\* Math.atan(b / 1000) in microradians, rounded down
AtanMicro(b) ==
  CASE b = 0 -> 0
    [] b = 100 -> 99668
    [] b = 414 -> 392516
    [] b = 500 -> 463647
    [] b = 1000 -> 785398
    [] b = 2000 -> 1107148
    [] b = 10000 -> 1471127

\* Math.ceil(micro * times / 1000000)
CeilTimes(micro, times) == (micro * times + 999999) \div 1000000

\* 4 * Math.atan(Math.abs(bulge))
Theta(bulge) == 4 * AtanMicro(Abs(bulge))

\* chordLength < 1e-6, the coordinates being integers times the scale factor
ChordBelowEpsilon(start, end) ==
  (end.x - start.x) * ScaleFactor = 0 /\ (end.y - start.y) * ScaleFactor = 0

\* the points pushed by the loop for (i = 1; i < segments; i++), each named
\* by its step: the start vertex would be step 0 and the end vertex step
\* segments
ArcSteps(segments) == [i \in 1..(segments - 1) |-> [step |-> i, of |-> segments]]

\* segments of PolylineDrawer.interpolateBulge without the floor of 8
PolylineSegments_NoFloor(theta) == CeilTimes(theta, 10)

\* PolylineDrawer.interpolateBulge: Math.max(8, Math.ceil(Math.abs(theta) * 10))
PolylineSegments(theta) == Max({8, CeilTimes(theta, 10)})

\* HatchDrawer.interpolateBulge: Math.max(16, Math.ceil(Math.abs(theta) * 20))
HatchSegments(theta) == Max({16, CeilTimes(theta, 20)})

PolylineInterpolateBulge(start, end, bulge) ==
  IF ChordBelowEpsilon(start, end) THEN <<>>
  ELSE ArcSteps(PolylineSegments(Theta(bulge)))

HatchInterpolateBulge(start, end, bulge) ==
  IF ChordBelowEpsilon(start, end) THEN <<>>
  ELSE ArcSteps(HatchSegments(Theta(bulge)))

BulgeInit ==
  /\ monochromeModeEnabled = FALSE
  /\ monochromeColor = 0
  /\ cEntity = [trueColor |-> None, colorIndex |-> None, color |-> None, layer |-> "0"]
  /\ cCtx = [hasLayers |-> FALSE, layers |-> EmptyLayers, inheritedColor |-> None]
  /\ calls = <<>>
  /\ RenderIdle
  /\ tCalls = <<>>
  /\ ViewportIdle
  /\ PolygonIdle
  /\ DrawerIdle
  /\ LoadIdle

\* a polyline segment with a bulge is sampled by the PolylineDrawer
CallPolylineInterpolateBulge ==
  /\ Len(bulgeCalls) < MaxBulgeCalls
  /\ \E start \in VertexInputs, end \in VertexInputs, bulge \in BulgeInputs :
       bulgeCalls' = Append(bulgeCalls,
         [drawer |-> "PolylineDrawer", start |-> start, end |-> end, bulge |-> bulge,
          result |-> PolylineInterpolateBulge(start, end, bulge)])
  /\ UNCHANGED <<colorVars, monoVars, renderVars, transformVars, viewportVars, polygonVars,
                 dimDraws, loadVars>>

\* a polyline boundary segment with a bulge is sampled by the HatchDrawer
CallHatchInterpolateBulge ==
  /\ Len(bulgeCalls) < MaxBulgeCalls
  /\ \E start \in VertexInputs, end \in VertexInputs, bulge \in BulgeInputs :
       bulgeCalls' = Append(bulgeCalls,
         [drawer |-> "HatchDrawer", start |-> start, end |-> end, bulge |-> bulge,
          result |-> HatchInterpolateBulge(start, end, bulge)])
  /\ UNCHANGED <<colorVars, monoVars, renderVars, transformVars, viewportVars, polygonVars,
                 dimDraws, loadVars>>

BulgeNext ==
  \/ CallPolylineInterpolateBulge
  \/ CallHatchInterpolateBulge

BulgeSpec == BulgeInit /\ [][BulgeNext]_vars

\* the result holds interior points only
InteriorOnly(result) ==
  \A n \in DOMAIN result : 0 < result[n].step /\ result[n].step < result[n].of

\* the result is empty under a chord below epsilon and has count(theta) - 1
\* interior points otherwise
ArcOf(call, count(_)) ==
  /\ InteriorOnly(call.result)
  /\ Len(call.result) =
       IF call.start = call.end THEN 0 ELSE count(Theta(call.bulge)) - 1

TenPerRadian(theta) == Max({8, CeilTimes(theta, 10)})

TwentyPerRadian(theta) == Max({16, CeilTimes(theta, 20)})

\* C28 as stated: bulgeToArc returns interior points only: none when the
\* chord is shorter than epsilon, and otherwise max(8, ceil(|theta|*10)) - 1
\* points with theta = 4*atan(|bulge|), the start and end vertex never among
\* them.
C28_ArcHasTenStepsPerRadian ==
  \A n \in DOMAIN bulgeCalls : ArcOf(bulgeCalls[n], TenPerRadian)

\* C28 amended: that count is the one of the polyline drawer; on the
\* boundary of a hatch the arc has max(16, ceil(|theta|*20)) - 1 interior
\* points.
C28_ArcStepsPerDrawer ==
  \A n \in DOMAIN bulgeCalls :
    IF bulgeCalls[n].drawer = "PolylineDrawer"
    THEN ArcOf(bulgeCalls[n], TenPerRadian)
    ELSE ArcOf(bulgeCalls[n], TwentyPerRadian)

\* a semicircle over a chord of 10 sampled by the polyline drawer: 31 points
C28_Witness ==
  \E n \in DOMAIN bulgeCalls :
    /\ bulgeCalls[n].drawer = "PolylineDrawer"
    /\ bulgeCalls[n].start = Pt(0, 0)
    /\ bulgeCalls[n].end = Pt(10, 0)
    /\ bulgeCalls[n].bulge = 1000
    /\ Len(bulgeCalls[n].result) = 31


\* C29: when render completes, every top-level entity has been counted in
\* exactly one of rendered, skipped and errors, so that their sum is the
\* number of top-level entities, and the emitted entity list has rendered
\* objects.
C29_CountersAddUp ==
  pc = "done" =>
    /\ stats.rendered + stats.skipped + stats.errors = Len(database.entities)
    /\ Len(out) = stats.rendered

\* a render of two entities has completed with one object and one error
C29_Witness ==
  /\ pc = "done"
  /\ Len(database.entities) = 2
  /\ stats.rendered = 1
  /\ stats.errors = 1
  /\ Len(out) = 1


(***************************************************************************)
(* Reloading: loadDatabase of src/unnamed/part_004 called again once a     *)
(* render is over                                                          *)
(***************************************************************************)
MaxLoads == 2

TopEntity(handle) == CHOOSE e \in TopEntities : e.handle = handle

\* a layer table with a layer of its own
OldLayerEntries ==
  [n \in {"0", "OLD"} |->
     [trueColor |-> None, colorIndex |-> Some(IF n = "0" THEN 3 ELSE 5),
      color |-> None, frozen |-> FALSE, off |-> FALSE]]

\* a LINE on a layer that no layer table has
ExtraLine == [Ent("r1", "LINE", "", Some(1)) EXCEPT !.layer = "EXTRA"]

OldLine == [Ent("r2", "LINE", "", Some(256)) EXCEPT !.layer = "OLD"]

ReloadDatabases ==
  { [entities |-> <<OldLine, TopEntity("t7")>>, blocks |-> BlocksNested,
     basePoints |-> BasePoints, layers |-> OldLayerEntries],
    [entities |-> <<TopEntity("t4"), TopEntity("t10")>>, blocks |-> BlocksNested,
     basePoints |-> BasePoints, layers |-> LayerEntries],
    [entities |-> <<TopEntity("t7")>>, blocks |-> BlocksCyclic,
     basePoints |-> BasePoints, layers |-> LayerEntries],
    [entities |-> <<ExtraLine, TopEntity("t9"), TopEntity("t6")>>, blocks |-> NoBlocks,
     basePoints |-> BasePoints, layers |-> LayerEntries] }

\* loadDatabase has been called once, and render has reached its loop
ReloadInit ==
  /\ monochromeModeEnabled = FALSE
  /\ monochromeColor = 0
  /\ cEntity = [trueColor |-> None, colorIndex |-> None, color |-> None, layer |-> "0"]
  /\ cCtx = [hasLayers |-> FALSE, layers |-> EmptyLayers, inheritedColor |-> None]
  /\ calls = <<>>
  /\ database \in ReloadDatabases
  /\ pc = "render"
  /\ idx = 1
  /\ stack = <<>>
  /\ ctx = NewDrawContext(database)
  /\ stats = ZeroStats
  /\ out = <<>>
  /\ visited = {}
  /\ ret = NoReturn
  /\ tCalls = <<>>
  /\ ViewportIdle
  /\ PolygonIdle
  /\ DrawerIdle
  /\ loaded = <<database>>
  /\ layerMap = initializeLayers(database, 1)
  /\ layerGroup = LayerGroupAfterInit({}, database, 1)

\* loadDatabase, lines 100-104: the database is replaced, initializeLayers
\* rebuilds the layers, and render runs up to its loop (lines 196-346):
\* clearEntities, a new DrawContext, new drawers, new counters
LoadDatabase ==
  /\ pc = "done"
  /\ Len(loaded) < MaxLoads
  /\ \E db \in ReloadDatabases :
       /\ database' = db
       /\ loaded' = Append(loaded, db)
       /\ layerMap' = ClearLayers(initializeLayers(db, Len(loaded) + 1))
       /\ layerGroup' = LayerGroupAfterInit(layerGroup, db, Len(loaded) + 1)
       /\ ctx' = NewDrawContext(db)
  /\ out' = clearEntities(out)
  /\ pc' = "render"
  /\ idx' = 1
  /\ stack' = <<>>
  /\ stats' = ZeroStats
  /\ visited' = {}
  /\ ret' = NoReturn
  /\ UNCHANGED <<colorVars, monoVars, transformVars, viewportVars, polygonVars, drawerVars>>

ReloadNext ==
  \/ StepSkipHidden
  \/ StepLeafDrawn
  \/ StepLeafThrows
  \/ StepNoDrawer
  \/ StepInsertThrows
  \/ StepInsertPlaceholder
  \/ StepInsertEnter
  \/ StepInsertOverflow
  \/ InsertReturn
  \/ RenderDone
  \/ LoadDatabase

ReloadSpec == ReloadInit /\ [][ReloadNext]_vars

\* the objects of the entity list, by the load and the position they come from
EmittedObjects == {[load |-> out[j].load, index |-> out[j].index] : j \in DOMAIN out}

\* the layer names the current database can produce
LayerNamesOf(db) ==
  (DOMAIN db.layers) \cup {"0"} \cup {db.entities[i].layer : i \in DOMAIN db.entities}

\* C30: after every loadDatabase call, the entity list, every layer and the
\* layer group hold exactly the objects and layers produced from the
\* database just loaded; nothing produced by an earlier call is reachable
\* from them.
C30_OnlyLastDatabaseReachable ==
  /\ \A j \in DOMAIN out :
       /\ out[j].load = Len(loaded)
       /\ out[j].index \in DOMAIN database.entities
       /\ out[j].entity = database.entities[out[j].index]
  /\ \A n \in DOMAIN layerMap :
       /\ layerMap[n].load = Len(loaded)
       /\ n \in LayerNamesOf(database)
       /\ \A object \in layerMap[n].objects :
            /\ object \in EmittedObjects
            /\ database.entities[object.index].layer = n
  /\ EmittedObjects = UNION {layerMap[n].objects : n \in DOMAIN layerMap}
  /\ layerGroup = {[name |-> n, load |-> Len(loaded)] : n \in DOMAIN layerMap}
  /\ (DOMAIN database.layers) \cup {"0"} \subseteq DOMAIN layerMap

\* a database with a layer of its own and two drawn entities was replaced by
\* another one, whose render is over and has left an object on a new layer
C30_Witness ==
  /\ Len(loaded) = 2
  /\ pc = "done"
  /\ "OLD" \in DOMAIN loaded[1].layers
  /\ "OLD" \notin DOMAIN layerMap
  /\ "EXTRA" \in DOMAIN layerMap
  /\ layerMap["EXTRA"].objects = {[load |-> 2, index |-> 1]}
  /\ Len(out) = 2

====
